---- MODULE Spec2Model ----
(***************************************************************************)
(* Verification model of the queue-driven acquisition and labeling engine: *)
(*   - QueuesRepository (src/src/database/queues.py): labeling_queue and   *)
(*     download_queue on PostgreSQL (READ COMMITTED, one connection and    *)
(*     one transaction per repository call);                               *)
(*   - run_downloads (src/src/workflows/downloads.py): the fallback chain  *)
(*     and the archive extraction;                                         *)
(*   - _run_labeling_async (src/src/workflows/labeling.py): the asyncio    *)
(*     producer / enrichment / classification / consumer pipeline.         *)
(* Each component has its own specification over the shared variables.     *)
(***************************************************************************)
EXTENDS Integers, Sequences, FiniteSets, TLC

\* "no row" / "no result", and the marker of a call that has not returned yet;
\* tuples, so that they compare with the rows of the queue.
NoRow == <<>>

Running == <<"Running">>

(***************************************************************************)
(* Identifiers.  metadata_id is TEXT; the model uses 1..NumMetadata with   *)
(* the integer order standing for the string order of ORDER BY.            *)
(***************************************************************************)
NumMetadata == 2

MetadataIds == 1..NumMetadata

QuestionIds == {1, 2}

Pairs == MetadataIds \X QuestionIds

\* questions.label_id of a question row
LabelOfQuestion(question_id) == 10 + question_id

LabelIds == {LabelOfQuestion(q) : q \in QuestionIds}

\* The primary key of metadata_labels: (metadata_id, label_id)
LabelKeys == MetadataIds \X LabelIds

Callers == {"c1", "c2"}

VARIABLES
    \* ---- labeling_queue and the transactions of pop_next_labeling_job ----
    labeling_queue,   \* committed rows of labeling_queue: a set of pairs
    pop_pc,           \* per caller: "idle" | "select" | "delete" | "commit"
    pop_row,          \* per caller: the row fetched by the SELECT, or NoRow
    pop_rowcount,     \* per caller: rows hit by its uncommitted DELETE (0 or 1)
    pop_ret,          \* per caller: Running during a call, else the last result
    watched,          \* history: the pair whose deliveries are counted
    delivered,        \* history: returns of `watched` since it was last inserted
    \* ---- _extract_and_copy_main_tex: the extraction of one archive ----
    tar_members,      \* tar.getmembers(): the member names, in archive order
    ex_pc,            \* "check" | "extract" | "blocked" | "extracted"
    ex_i,             \* members checked (in "check") or written (in "extract")
    ex_written,       \* absolute paths of the files written so far
    \* ---- download_queue and one run_downloads call after the other ----
    download_queue,   \* rows [arxiv_id, download_status, updated_at], in created_at order
    tarball_dir,      \* names of the files in DOWNLOAD_CONFIG["tarball_directory"]
    dl_pc,            \* "idle" (no run) | "loop" | "fetching" | "raised" (the run raised)
    pending_ids,      \* the ids claimed by the run
    dl_i,             \* items of pending_ids the loop has started
    stats,            \* requested / attempted / completed / failed
    dl_h,             \* the handler of the chain whose fetch is in flight (1..4), else 0
    dl_target,        \* the id that fetch asks for
    attempts,         \* history: the strategies tried for the current item, with outcome
    dl_outcome,       \* history: how the current item ended
    dl_unstored,      \* history: the statuses whose update raised for the current item
    dl_completed,     \* history: the ids some run has counted as completed
    dl_writes,        \* history: the set_download_status calls of the run, in order:
                      \*   [arxiv_id, status, stored (the update was committed)]
    dl_reprepared,    \* history: the ids prepare_paper_download was run for again
                      \*   while their job was COMPLETED or FAILED
    dl_unextracted,   \* history: the items whose own archive a run fetched and failed
                      \*   to extract, the archive being still the one on disk
    \* ---- one _run_labeling_async call ----
    questions,        \* rows of questions: the question ids that exist
    texts,            \* per metadata id: "missing" | "empty" | "full" (title and abstract)
    metadata_labels,  \* rows of metadata_labels: [metadata_id, label_id, confidence_score]
    lab_pc,           \* "idle" | "popping" | "running" | "returned" | "raised"
    pops_left,        \* iterations left of the loop of fetch_jobs_from_queue
    jobs,             \* per popped job: its pair, its stage, and the history of its calls
    enriched_queue,   \* enriched_queue: job numbers, and Sentinel for None
    sentinel_put,     \* the producer has put the sentinel
    cons_pc,          \* consumer: "get" | "gather" | "done"
    lab_stats,        \* processed / labeled / skipped_missing / errors
    lab_client,       \* the client of async with: "none" | "built" | "failed"
    queue_at_start,   \* history: labeling_queue when the run was called
    lab_limit,        \* history: the parameter labeling_jobs of the run
    pop_calls,        \* history: calls of pop_next_labeling_job by the run
    pop_none,         \* history: a call of pop_next_labeling_job returned None
    last_upsert,      \* history: per key of metadata_labels, the confidence passed to
                      \*   the most recent upsert_metadata_label that committed, if any,
                      \*   and whether an earlier upsert of the key had committed before
    \* ---- one call of a classify method of LLMChecker ----
    ck_enabled,       \* LLM_CONFIG["enabled"]
    ck_mode,          \* the method called
    ck_question,      \* the arguments: question, and title and abstract (or the
    ck_title,         \*   fields of the metadata record): [present, text]
    ck_abstract,
    ck_pc,            \* "start" | "chat" (the backend call is in flight) | "returned"
    ck_clients,       \* ollama clients constructed by the call
    ck_chat,          \* how the backend call ended: "none" | "raised" | "responded"
    ck_content,       \* the content of the backend's response message
    ck_result,        \* what the call returned
    \* ---- one call of _extract_and_copy_main_tex(tarball_path, aid) ----
    mt_archive,       \* the archive at tarball_path: [readable, members, files]
    mt_aid,           \* the argument aid
    mt_pc,            \* "mkdir" | "open" | "walk" | "cleanup" | "returned" | "raised"
    tarball_on_disk,  \* the file at tarball_path exists
    extracted_dir,    \* the scratch directory of aid: [exists, files (its walk)]
    tex_out_dir,      \* the files of data/tex: [dest, source (the walk entry copied)]
    mt_rmtree,        \* how shutil.rmtree ended: "none" (not called) | "removed" | "failed"
    \* ---- one ArxivClient and its calls of _enforce_rate_limit ----
    now,              \* time.time(), in seconds
    last_request_time,\* self.last_request_time
    rl_pc,            \* "idle" | "sleep" (in time.sleep) | "record" (before line 39)
    rl_calls          \* history: per call [current_time, sleep_time (0: no sleep),
                      \*   recorded (the request time it stored, {} until then)]

queueVars == <<labeling_queue, pop_pc, pop_row, pop_rowcount, pop_ret, watched, delivered>>

extractVars == <<tar_members, ex_pc, ex_i, ex_written>>

downloadVars == <<download_queue, tarball_dir, dl_pc, pending_ids, dl_i, stats, dl_h,
                  dl_target, attempts, dl_outcome, dl_unstored, dl_completed, dl_writes,
                  dl_reprepared, dl_unextracted>>

\* The labeling run without the queue it pops from.
labelingHistory == <<lab_client, queue_at_start, lab_limit, pop_calls, pop_none, last_upsert>>

labelingVars == <<questions, texts, metadata_labels, lab_pc, pops_left, jobs, enriched_queue,
                  sentinel_put, cons_pc, lab_stats, labelingHistory>>

classifyVars == <<ck_enabled, ck_mode, ck_question, ck_title, ck_abstract, ck_pc, ck_clients,
                  ck_chat, ck_content, ck_result>>

mainTexVars == <<mt_archive, mt_aid, mt_pc, tarball_on_disk, extracted_dir, tex_out_dir,
                 mt_rmtree>>

arxivVars == <<now, last_request_time, rl_pc, rl_calls>>

vars == <<queueVars, extractVars, downloadVars, labelingVars, classifyVars, mainTexVars,
          arxivVars>>

\* What the repository calls on labeling_queue leave alone.
nonQueueVars == <<extractVars, downloadVars, labelingVars, classifyVars, mainTexVars,
                  arxivVars>>

\* What the extraction of an archive leaves alone.
nonExtractVars == <<queueVars, downloadVars, labelingVars, classifyVars, mainTexVars,
                    arxivVars>>

\* What a download run leaves alone.
nonDownloadVars == <<queueVars, extractVars, labelingVars, classifyVars, mainTexVars,
                     arxivVars>>

\* What a labeling run leaves alone: it works on labeling_queue through
\* pop_next_labeling_job only.
nonLabelingVars == <<pop_pc, pop_row, pop_rowcount, pop_ret, watched, delivered,
                     extractVars, downloadVars, classifyVars, mainTexVars, arxivVars>>

\* What a call of the checker leaves alone.
nonClassifyVars == <<queueVars, extractVars, downloadVars, labelingVars, mainTexVars,
                     arxivVars>>

\* What a call of _extract_and_copy_main_tex leaves alone.
nonMainTexVars == <<queueVars, extractVars, downloadVars, labelingVars, classifyVars,
                    arxivVars>>

\* What the rate limiter of the arXiv client leaves alone.
nonArxivVars == <<queueVars, extractVars, downloadVars, labelingVars, classifyVars,
                  mainTexVars>>

\* str.startswith: a is a prefix of b (also used on sequences of path components)
IsPrefix(a, b) == Len(a) <= Len(b) /\ SubSeq(b, 1, Len(a)) = a

\* str.endswith
EndsWith(text, suffix) ==
    Len(suffix) <= Len(text) /\ SubSeq(text, Len(text) - Len(suffix) + 1, Len(text)) = suffix

UpperChars == <<"A", "B", "C", "D", "E", "F", "G", "H", "I", "J", "K", "L", "M",
                "N", "O", "P", "Q", "R", "S", "T", "U", "V", "W", "X", "Y", "Z">>

LowerChars == <<"a", "b", "c", "d", "e", "f", "g", "h", "i", "j", "k", "l", "m",
                "n", "o", "p", "q", "r", "s", "t", "u", "v", "w", "x", "y", "z">>

\* str.lower()
Lower(text) ==
    [i \in 1..Len(text) |->
        IF \E k \in 1..26 : UpperChars[k] = text[i]
        THEN LowerChars[CHOOSE k \in 1..26 : UpperChars[k] = text[i]]
        ELSE text[i]]

(***************************************************************************)
(* ORDER BY metadata_id, question_id LIMIT 1                               *)
(***************************************************************************)
RowLess(p, r) == p[1] < r[1] \/ (p[1] = r[1] /\ p[2] < r[2])

FirstRow(rows) == CHOOSE p \in rows : \A r \in rows : r = p \/ RowLess(p, r)

\* A row whose DELETE another transaction has executed and not yet committed.
LockedByOther(c, p) ==
    \E d \in Callers \ {c} : pop_pc[d] = "commit" /\ pop_rowcount[d] = 1 /\ pop_row[d] = p

(***************************************************************************)
(* pop_next_labeling_job, one action per statement of its transaction.     *)
(***************************************************************************)
\* with self._connect() as conn: cur = conn.cursor()
PopCall(c) ==
    /\ pop_pc[c] = "idle"
    /\ pop_pc' = [pop_pc EXCEPT ![c] = "select"]
    /\ pop_ret' = [pop_ret EXCEPT ![c] = Running]
    /\ pop_row' = [pop_row EXCEPT ![c] = NoRow]
    /\ pop_rowcount' = [pop_rowcount EXCEPT ![c] = 0]
    /\ UNCHANGED <<labeling_queue, watched, delivered>>
    /\ UNCHANGED nonQueueVars

\* SELECT ... ORDER BY metadata_id, question_id LIMIT 1; if not row: return None
PopSelect(c) ==
    /\ pop_pc[c] = "select"
    /\ IF labeling_queue = {}
       THEN /\ pop_pc' = [pop_pc EXCEPT ![c] = "idle"]
            /\ pop_ret' = [pop_ret EXCEPT ![c] = NoRow]
            /\ UNCHANGED pop_row
       ELSE /\ pop_pc' = [pop_pc EXCEPT ![c] = "delete"]
            /\ pop_row' = [pop_row EXCEPT ![c] = FirstRow(labeling_queue)]
            /\ UNCHANGED pop_ret
    /\ UNCHANGED <<labeling_queue, pop_rowcount, watched, delivered>>
    /\ UNCHANGED nonQueueVars

\* The rows the DELETE statement hits: the selected row if it is still there.
DeleteRowcount(c) == IF pop_row[c] \in labeling_queue THEN 1 ELSE 0

\* DELETE FROM labeling_queue WHERE metadata_id = %s AND question_id = %s
\* (waits while another transaction holds the row; the row count is not read)
PopDelete(c) ==
    /\ pop_pc[c] = "delete"
    /\ ~LockedByOther(c, pop_row[c])
    /\ pop_rowcount' = [pop_rowcount EXCEPT ![c] = DeleteRowcount(c)]
    /\ pop_pc' = [pop_pc EXCEPT ![c] = "commit"]
    /\ UNCHANGED <<labeling_queue, pop_row, pop_ret, watched, delivered>>
    /\ UNCHANGED nonQueueVars

\* Mutant: the commit leaves the selected row in the table.
CommittedQueue_KeepsRow(c) == labeling_queue

\* The table after the transaction of caller c commits.
CommittedQueue(c) ==
    IF pop_rowcount[c] = 1 THEN labeling_queue \ {pop_row[c]} ELSE labeling_queue

\* conn.commit(); return {"metadata_id": ..., "question_id": ...}
PopCommit(c) ==
    /\ pop_pc[c] = "commit"
    /\ labeling_queue' = CommittedQueue(c)
    /\ pop_ret' = [pop_ret EXCEPT ![c] = pop_row[c]]
    /\ pop_pc' = [pop_pc EXCEPT ![c] = "idle"]
    /\ delivered' = IF pop_row[c] = watched
                    THEN (IF delivered < Cardinality(Callers) THEN delivered + 1 ELSE delivered)
                    ELSE delivered
    /\ UNCHANGED <<pop_row, pop_rowcount, watched>>
    /\ UNCHANGED nonQueueVars

(***************************************************************************)
(* prepare_metadata_labeling: INSERT ... ON CONFLICT DO NOTHING of the     *)
(* pairs (m, question_id) for the selected metadata records.               *)
(***************************************************************************)
prepare_metadata_labeling(question_id, metadata_ids) ==
    LET params == {<<m, question_id>> : m \in metadata_ids}
    IN  /\ metadata_ids # {}
        /\ \A p \in params : \A c \in Callers : ~(pop_pc[c] = "commit" /\ pop_rowcount[c] = 1 /\ pop_row[c] = p)
        /\ labeling_queue' = labeling_queue \cup params
        /\ labeling_queue' # labeling_queue
        /\ delivered' = IF watched \in params \ labeling_queue THEN 0 ELSE delivered
        /\ UNCHANGED <<pop_pc, pop_row, pop_rowcount, pop_ret, watched>>
        /\ UNCHANGED nonQueueVars

Enqueue == \E q \in QuestionIds : \E ms \in SUBSET MetadataIds : prepare_metadata_labeling(q, ms)

\* The extraction component at rest (it takes no step in the queue specifications).
ExtractIdle ==
    /\ tar_members = <<>>
    /\ ex_pc = "extracted"
    /\ ex_i = 0
    /\ ex_written = {}

\* No ArxivClient (it takes no step in the other specifications).
ArxivIdle ==
    /\ now = 0
    /\ last_request_time = 0
    /\ rl_pc = "idle"
    /\ rl_calls = <<>>

\* No call of _extract_and_copy_main_tex (it takes no step in the other
\* specifications).
MainTexIdle ==
    /\ mt_archive = [readable |-> FALSE, members |-> <<>>, files |-> <<>>]
    /\ mt_aid = <<>>
    /\ mt_pc = "returned"
    /\ tarball_on_disk = FALSE
    /\ extracted_dir = [exists |-> FALSE, files |-> <<>>]
    /\ tex_out_dir = {}
    /\ mt_rmtree = "none"

\* The download component at rest (it takes no step in the other specifications).
DownloadIdle ==
    /\ download_queue = <<>>
    /\ tarball_dir = {}
    /\ dl_pc = "idle"
    /\ pending_ids = <<>>
    /\ dl_i = 0
    /\ stats = [requested |-> 0, attempted |-> 0, completed |-> 0, failed |-> 0]
    /\ dl_h = 0
    /\ dl_target = <<>>
    /\ attempts = <<>>
    /\ dl_outcome = "none"
    /\ dl_unstored = {}
    /\ dl_completed = {}
    /\ dl_writes = <<>>
    /\ dl_reprepared = {}
    /\ dl_unextracted = {}

\* No call of the checker (it takes no step in the other specifications).
ClassifyIdle ==
    /\ ck_enabled = FALSE
    /\ ck_mode = "structured"
    /\ ck_question = <<>>
    /\ ck_title = [present |-> FALSE, text |-> <<>>]
    /\ ck_abstract = [present |-> FALSE, text |-> <<>>]
    /\ ck_pc = "returned"
    /\ ck_clients = 0
    /\ ck_chat = "none"
    /\ ck_content = <<>>
    /\ ck_result = [kind |-> "none", answer_value |-> FALSE, confidence_score |-> <<>>]

\* No labeling run (it takes no step in the other specifications).
LabelingIdle ==
    /\ questions = {}
    /\ texts = [m \in MetadataIds |-> "missing"]
    /\ metadata_labels = {}
    /\ lab_pc = "idle"
    /\ pops_left = 0
    /\ jobs = <<>>
    /\ enriched_queue = <<>>
    /\ sentinel_put = FALSE
    /\ cons_pc = "get"
    /\ lab_stats = [processed |-> 0, labeled |-> 0, skipped_missing |-> 0, errors |-> 0]
    /\ lab_client = "none"
    /\ queue_at_start = {}
    /\ lab_limit = 0
    /\ pop_calls = 0
    /\ pop_none = FALSE
    /\ last_upsert = [key \in LabelKeys |-> {}]

\* The labeling queue at rest, empty (it takes no step in the other specifications).
QueueIdle ==
    /\ labeling_queue = {}
    /\ pop_pc = [c \in Callers |-> "idle"]
    /\ pop_row = [c \in Callers |-> NoRow]
    /\ pop_rowcount = [c \in Callers |-> 0]
    /\ pop_ret = [c \in Callers |-> NoRow]
    /\ watched = <<1, 1>>
    /\ delivered = 0

QueueInit ==
    /\ MainTexIdle
    /\ ArxivIdle
    /\ ClassifyIdle
    /\ ExtractIdle
    /\ DownloadIdle
    /\ LabelingIdle
    /\ labeling_queue \in SUBSET Pairs
    /\ pop_pc = [c \in Callers |-> "idle"]
    /\ pop_row = [c \in Callers |-> NoRow]
    /\ pop_rowcount = [c \in Callers |-> 0]
    /\ pop_ret = [c \in Callers |-> NoRow]
    /\ watched \in Pairs
    /\ delivered = 0

\* Concurrent callers: the statements of the callers interleave freely.
QueueNext ==
    \/ \E c \in Callers : PopCall(c)
    \/ \E c \in Callers : PopSelect(c)
    \/ \E c \in Callers : PopDelete(c)
    \/ \E c \in Callers : PopCommit(c)
    \/ Enqueue

SpecQueue == QueueInit /\ [][QueueNext]_vars

\* Sequential callers: a call starts only when no other call is running.
PopCallSeq(c) == (\A d \in Callers : pop_pc[d] = "idle") /\ PopCall(c)

QueueSeqNext ==
    \/ \E c \in Callers : PopCallSeq(c)
    \/ \E c \in Callers : PopSelect(c)
    \/ \E c \in Callers : PopDelete(c)
    \/ \E c \in Callers : PopCommit(c)
    \/ Enqueue

SpecQueueSeq == QueueInit /\ [][QueueSeqNext]_vars


(***************************************************************************)
(* _extract_and_copy_main_tex: the path check and the extraction.          *)
(* A path is a record [abs, parts]: whether it starts at the root, and its *)
(* components.  An absolute normalised path is the sequence of its         *)
(* components.                                                             *)
(***************************************************************************)
MaxParts == 3

MaxMembers == 2

\* The components a member name is drawn from.
Components == {"..", "e"}

\* os.getcwd()
Cwd == <<"e">>

\* str(extracted_dir): the scratch directory of the item, relative to the cwd
ExtractedDir == [abs |-> FALSE, parts |-> <<"e">>]

SeqsUpTo(S, n) == UNION {[1..k -> S] : k \in 0..n}

MemberNames ==
    {[abs |-> a, parts |-> ps] : a \in BOOLEAN, ps \in SeqsUpTo(Components, MaxParts) \ {<<>>}}

\* os.path.join(path, member.name): an absolute second argument replaces the first
PathJoin(path, name) ==
    IF name.abs THEN name ELSE [abs |-> path.abs, parts |-> path.parts \o name.parts]

\* os.path.normpath on the components of an absolute path: "." and "" are
\* dropped, ".." removes the component before it and is dropped at the root.
RECURSIVE NormParts(_, _)
NormParts(parts, stack) ==
    IF parts = <<>> THEN stack
    ELSE LET h == Head(parts)
         IN  IF h = "." \/ h = "" THEN NormParts(Tail(parts), stack)
             ELSE IF h = ".."
                  THEN NormParts(Tail(parts),
                                 IF stack = <<>> THEN stack ELSE SubSeq(stack, 1, Len(stack) - 1))
                  ELSE NormParts(Tail(parts), Append(stack, h))

\* os.path.abspath(p) == normpath(join(os.getcwd(), p))
Abspath(p) == NormParts(IF p.abs THEN p.parts ELSE Cwd \o p.parts, <<>>)

\* os.path.commonpath of two absolute normalised paths: the longest common
\* prefix of their components.
RECURSIVE CommonPath(_, _)
CommonPath(a, b) ==
    IF a = <<>> \/ b = <<>> \/ Head(a) # Head(b) THEN <<>>
    ELSE <<Head(a)>> \o CommonPath(Tail(a), Tail(b))

\* Mutant: the check compares the joined path as given, without normalising it.
IsWithinDirectory_NoNormalise(directory, target) ==
    LET raw(p) == IF p.abs THEN p.parts ELSE Cwd \o p.parts
    IN  raw(directory) = CommonPath(raw(directory), raw(target))

\* _is_within_directory(directory, target)
IsWithinDirectory(directory, target) ==
    LET abs_directory == Abspath(directory)
        abs_target == Abspath(target)
    IN  CommonPath(abs_directory, abs_directory) = CommonPath(abs_directory, abs_target)

\* for member in tar.getmembers(): ... raise Exception("Blocked path traversal in tar file")
SafeExtractCheck ==
    /\ ex_pc = "check"
    /\ IF ex_i = Len(tar_members)
       THEN /\ ex_pc' = "extract"
            /\ ex_i' = 0
       ELSE LET member_path == PathJoin(ExtractedDir, tar_members[ex_i + 1])
            IN  IF ~IsWithinDirectory(ExtractedDir, member_path)
                THEN /\ ex_pc' = "blocked"
                     /\ UNCHANGED ex_i
                ELSE /\ ex_i' = ex_i + 1
                     /\ UNCHANGED ex_pc
    /\ UNCHANGED <<tar_members, ex_written>>
    /\ UNCHANGED nonExtractVars

\* tar.extractall(path): each member is written to path joined with its name
SafeExtractWrite ==
    /\ ex_pc = "extract"
    /\ IF ex_i = Len(tar_members)
       THEN /\ ex_pc' = "extracted"
            /\ UNCHANGED <<ex_i, ex_written>>
       ELSE /\ ex_written' = ex_written \cup {Abspath(PathJoin(ExtractedDir, tar_members[ex_i + 1]))}
            /\ ex_i' = ex_i + 1
            /\ UNCHANGED ex_pc
    /\ UNCHANGED tar_members
    /\ UNCHANGED nonExtractVars

\* with tarfile.open(tarball_path, "r:*") as tf: _safe_extract(tf, str(extracted_dir))
ExtractInit ==
    /\ MainTexIdle
    /\ ArxivIdle
    /\ ClassifyIdle
    /\ QueueIdle
    /\ DownloadIdle
    /\ LabelingIdle
    /\ tar_members \in SeqsUpTo(MemberNames, MaxMembers)
    /\ ex_pc = "check"
    /\ ex_i = 0
    /\ ex_written = {}

ExtractNext == SafeExtractCheck \/ SafeExtractWrite

SpecExtract == ExtractInit /\ [][ExtractNext]_vars

(***************************************************************************)
(* run_downloads.  An arxiv_id is a string, modelled as the sequence of    *)
(* its characters: a base, and (when it has one) "v" and the decimal       *)
(* digits of the version.                                                  *)
(***************************************************************************)
MaxVersion == 2

MaxQueue == 2

DigitChars == <<"0", "1", "2", "3", "4", "5", "6", "7", "8", "9">>

IsDigit(ch) == \E d \in 1..10 : DigitChars[d] = ch

DigitVal(ch) == (CHOOSE d \in 1..10 : DigitChars[d] = ch) - 1

\* str(n) for n >= 0, as in the f-strings f"{mid}v{last_ver}" and f"{base}v{ver-1}"
RECURSIVE Digits(_)
Digits(n) == IF n < 10 THEN <<DigitChars[n + 1]>> ELSE Append(Digits(n \div 10), DigitChars[(n % 10) + 1])

\* int(m.group(...)) on a non-empty run of digits
RECURSIVE ParseInt(_)
ParseInt(ds) ==
    IF Len(ds) = 1 THEN DigitVal(ds[1])
    ELSE 10 * ParseInt(SubSeq(ds, 1, Len(ds) - 1)) + DigitVal(ds[Len(ds)])

NoId == <<>>

\* The "v" of a match of v(\d+)$: the last "v", when one or more digits and
\* nothing else follow it; 0 when the pattern does not match.
VersionMark(aid) ==
    LET vs == {i \in 1..Len(aid) : aid[i] = "v"}
    IN  IF vs = {} THEN 0
        ELSE LET i == CHOOSE k \in vs : \A j \in vs : j <= k
             IN  IF i < Len(aid) /\ \A j \in (i + 1)..Len(aid) : IsDigit(aid[j]) THEN i ELSE 0

\* _parse_version(aid)
ParseVersion(aid) ==
    LET i == VersionMark(aid)
    IN  IF i = 0 THEN 1 ELSE ParseInt(SubSeq(aid, i + 1, Len(aid)))

\* _prev_version(aid)
PrevVersion(aid) ==
    LET i == VersionMark(aid)
    IN  IF i = 0 THEN NoId
        ELSE LET base == SubSeq(aid, 1, i - 1)
                 ver == ParseInt(SubSeq(aid, i + 1, Len(aid)))
             IN  IF ver <= 1 THEN NoId ELSE base \o <<"v">> \o Digits(ver - 1)

\* The versions a queued id of the model can carry: a first version (it has no
\* previous one) and a later one.
QueuedVersions == {1, MaxVersion}

\* The ids of the model: f"{mid}v{last_ver}" for these versions, and an id
\* without a version suffix.
ArxivIds == {<<"P", "v">> \o Digits(n) : n \in QueuedVersions} \cup {<<"P">>}

\* The file arxiv.Result.download_source writes for an id: "<id>.<title>.tar.gz"
TarballName(aid) == aid \o <<".">>

(***************************************************************************)
(* _extract_and_copy_main_tex after the extraction: the walk of the        *)
(* scratch directory and the choice of the main .tex file.  A file of the  *)
(* walk is [root, name, size, stat_ok]: the directory os.walk is in below  *)
(* the scratch directory, the file name as its characters, st_size, and    *)
(* whether fpath.stat() returns (it raises for a dangling link).           *)
(***************************************************************************)
TexSuffix == <<".", "t", "e", "x">>

\* Mutant: the extension is compared as it is written.
IsTexName_CaseSensitive(fname) == EndsWith(fname, TexSuffix)

\* fname.lower().endswith(".tex")
IsTexName(fname) == EndsWith(Lower(fname), TexSuffix)

\* The loop of lines 63-75 from the i-th file of the walk on: largest is the
\* place in the walk of largest_tex (0 for None), largest_size starts at -1.
RECURSIVE LargestTexFrom(_, _, _, _)
LargestTexFrom(files, i, largest, largest_size) ==
    IF i > Len(files) THEN largest
    ELSE IF IsTexName(files[i].name) /\ files[i].stat_ok /\ files[i].size > largest_size
         THEN LargestTexFrom(files, i + 1, i, files[i].size)
         ELSE LargestTexFrom(files, i + 1, largest, largest_size)

LargestTex(files) == LargestTexFrom(files, 1, 0, 0 - 1)

\* dest = Path("data") / "tex" / f"{aid}.tex"
TexDest(aid) == <<"data", "tex", aid \o TexSuffix>>

\* What shutil.copy2 leaves in data/tex for a walk: nothing when largest_tex is None.
MainTexCopy(files, aid) ==
    IF LargestTex(files) = 0 THEN {}
    ELSE {[dest |-> TexDest(aid), source |-> files[LargestTex(files)]]}

WalkFile(root, name, size) == [root |-> root, name |-> name, size |-> size, stat_ok |-> TRUE]

\* The archives a source fetch can deliver: one that extracts and holds a
\* .tex file, one that extracts and holds none, one with an entry that climbs
\* out of the scratch directory, one tarfile.open cannot read.
GoodArchive == [readable |-> TRUE, members |-> <<[abs |-> FALSE, parts |-> <<"e">>]>>,
                files |-> <<WalkFile(<<>>, <<"a", ".", "t", "e", "x">>, 1)>>]

NoTexArchive == [readable |-> TRUE, members |-> <<[abs |-> FALSE, parts |-> <<"e">>]>>,
                 files |-> <<WalkFile(<<>>, <<"c", ".", "t", "x", "t">>, 1)>>]

TraversalArchive == [readable |-> TRUE, members |-> <<[abs |-> FALSE, parts |-> <<"e">>],
                                                     [abs |-> FALSE, parts |-> <<"..", "..", "e">>]>>,
                     files |-> <<>>]

UnreadableArchive == [readable |-> FALSE, members |-> <<>>, files |-> <<>>]

FetchedArchives == {GoodArchive, NoTexArchive, TraversalArchive, UnreadableArchive}

\* _safe_extract raises "Blocked path traversal in tar file"
SafeExtractBlocks(members) ==
    \E i \in 1..Len(members) : ~IsWithinDirectory(ExtractedDir, PathJoin(ExtractedDir, members[i]))

\* Mutant: an archive without a .tex file makes the extraction raise.
ExtractRaises_WithoutTex(archive) ==
    ~archive.readable \/ SafeExtractBlocks(archive.members) \/ LargestTex(archive.files) = 0

\* _extract_and_copy_main_tex(tarball_path, aid) raises
ExtractRaises(archive) == ~archive.readable \/ SafeExtractBlocks(archive.members)

\* The row an INSERT INTO download_queue (arxiv_id, download_status) makes;
\* updated_at counts the UPDATEs that have set it since its DEFAULT.
NewDownloadJob(aid) == [arxiv_id |-> aid, download_status |-> "PENDING", updated_at |-> 0]

\* Mutant: the SELECT has no WHERE clause.
RECURSIVE PendingIds_AnyStatus(_, _)
PendingIds_AnyStatus(rows, limit) ==
    IF rows = <<>> \/ limit = 0 THEN <<>>
    ELSE <<Head(rows).arxiv_id>> \o PendingIds_AnyStatus(Tail(rows), limit - 1)

\* get_pending_downloads(limit)
RECURSIVE PendingIds(_, _)
PendingIds(rows, limit) ==
    IF rows = <<>> \/ limit = 0 THEN <<>>
    ELSE IF Head(rows).download_status = "PENDING"
         THEN <<Head(rows).arxiv_id>> \o PendingIds(Tail(rows), limit - 1)
         ELSE PendingIds(Tail(rows), limit)

\* set_download_status(arxiv_id, status): UPDATE ... SET download_status = %s,
\* updated_at = CURRENT_TIMESTAMP WHERE arxiv_id = %s
SetDownloadStatus(rows, aid, status) ==
    [k \in 1..Len(rows) |->
        IF rows[k].arxiv_id = aid
        THEN [rows[k] EXCEPT !.download_status = status, !.updated_at = @ + 1]
        ELSE rows[k]]

StatusOf(aid) ==
    LET ks == {k \in 1..Len(download_queue) : download_queue[k].arxiv_id = aid}
    IN  IF ks = {} THEN "ABSENT" ELSE download_queue[CHOOSE k \in ks : TRUE].download_status

QueuedIds == {download_queue[k].arxiv_id : k \in 1..Len(download_queue)}

\* Mutant: the insert resets a job that is already queued to PENDING.
PrepareRows_ResetsStatus(rows, aid) ==
    IF \E k \in 1..Len(rows) : rows[k].arxiv_id = aid
    THEN SetDownloadStatus(rows, aid, "PENDING")
    ELSE Append(rows, NewDownloadJob(aid))

\* INSERT INTO download_queue (arxiv_id, download_status) ... ON CONFLICT (arxiv_id) DO NOTHING
PrepareRows(rows, aid) ==
    IF \E k \in 1..Len(rows) : rows[k].arxiv_id = aid
    THEN rows
    ELSE Append(rows, NewDownloadJob(aid))

\* prepare_paper_download(label_id), for a label with one labelled paper whose
\* last version is n: it enqueues f"{mid}v{last_ver}"
prepare_paper_download(n) ==
    LET aid == <<"P", "v">> \o Digits(n)
    IN  /\ dl_pc \in {"idle", "raised"}
        /\ Len(PrepareRows(download_queue, aid)) <= MaxQueue
        /\ download_queue' = PrepareRows(download_queue, aid)
        /\ dl_reprepared' = IF StatusOf(aid) \in {"COMPLETED", "FAILED"}
                            THEN dl_reprepared \cup {aid} ELSE dl_reprepared
        /\ download_queue' # download_queue \/ dl_reprepared' # dl_reprepared
        /\ UNCHANGED <<tarball_dir, dl_pc, pending_ids, dl_i, stats, dl_h, dl_target,
                       attempts, dl_outcome, dl_unstored, dl_completed, dl_writes,
                       dl_unextracted>>
        /\ UNCHANGED nonDownloadVars

PrepareDownload == \E n \in QueuedVersions : prepare_paper_download(n)

\* run_downloads(limit) up to the loop: claim the pending ids, reset the stats
\* (with nothing pending it returns the zero stats at once: no state changes)
RunDownloads(limit) ==
    /\ dl_pc \in {"idle", "raised"}
    /\ LET ids == PendingIds(download_queue, limit)
       IN  /\ pending_ids' = ids
           /\ ids # <<>>
           /\ dl_pc' = "loop"
    /\ stats' = [requested |-> limit, attempted |-> 0, completed |-> 0, failed |-> 0]
    /\ dl_i' = 0
    /\ dl_h' = 0
    /\ dl_target' = NoId
    /\ attempts' = <<>>
    /\ dl_outcome' = "none"
    /\ dl_unstored' = {}
    /\ dl_writes' = <<>>
    /\ UNCHANGED <<download_queue, tarball_dir, dl_completed, dl_reprepared, dl_unextracted>>
    /\ UNCHANGED nonDownloadVars

StartRun == \E limit \in 1..MaxQueue : RunDownloads(limit)

CurrentId == pending_ids[dl_i]

\* One call of set_download_status by the run, as the history keeps it.
StatusCall(aid, status, stored) == [arxiv_id |-> aid, status |-> status, stored |-> stored]

\* Mutant: completed is incremented before the status update is made, so an
\* update that raises leaves the item counted twice.
ItemCompleted_CountsFirst(aid, queue, stored, stored2, st) ==
    IF stored
    THEN /\ download_queue' = SetDownloadStatus(queue, aid, "COMPLETED")
         /\ stats' = [st EXCEPT !.completed = @ + 1]
         /\ dl_completed' = dl_completed \cup {aid}
         /\ dl_unstored' = {}
         /\ dl_writes' = Append(dl_writes, [arxiv_id |-> aid, status |-> "COMPLETED", stored |-> TRUE])
    ELSE /\ download_queue' = IF stored2 THEN SetDownloadStatus(queue, aid, "FAILED") ELSE queue
         /\ stats' = [st EXCEPT !.completed = @ + 1, !.failed = @ + 1]
         /\ dl_unstored' = IF stored2 THEN {"COMPLETED"} ELSE {"COMPLETED", "FAILED"}
         /\ dl_writes' = dl_writes \o <<[arxiv_id |-> aid, status |-> "COMPLETED", stored |-> FALSE],
                                         [arxiv_id |-> aid, status |-> "FAILED", stored |-> stored2]>>
         /\ UNCHANGED dl_completed

\* Lines 189-192: the chain succeeded (or the artifact was reused, lines 181-182).
\* stored: whether the status update went through; when it raises, the
\* handler of line 195 marks the item FAILED (stored2: whether that went through).
ItemCompleted(aid, queue, stored, stored2, st) ==
    IF stored
    THEN /\ download_queue' = SetDownloadStatus(queue, aid, "COMPLETED")
         /\ stats' = [st EXCEPT !.completed = @ + 1]
         /\ dl_completed' = dl_completed \cup {aid}
         /\ dl_unstored' = {}
         /\ dl_writes' = Append(dl_writes, StatusCall(aid, "COMPLETED", TRUE))
    ELSE /\ download_queue' = IF stored2 THEN SetDownloadStatus(queue, aid, "FAILED") ELSE queue
         /\ stats' = [st EXCEPT !.failed = @ + 1]
         /\ dl_unstored' = IF stored2 THEN {"COMPLETED"} ELSE {"COMPLETED", "FAILED"}
         /\ dl_writes' = dl_writes \o <<StatusCall(aid, "COMPLETED", FALSE),
                                         StatusCall(aid, "FAILED", stored2)>>
         /\ UNCHANGED dl_completed

\* Mutant: the handler of line 195 counts the failure and writes no status.
ItemFailed_CountsOnly(aid, stored) ==
    /\ stats' = [stats EXCEPT !.failed = @ + 1]
    /\ dl_unstored' = {}
    /\ UNCHANGED <<download_queue, dl_completed, dl_writes>>

\* Lines 194-201: raise RuntimeError; except: set FAILED (which may raise and is
\* then logged only); stats["failed"] += 1
ItemFailed(aid, stored) ==
    /\ download_queue' = IF stored THEN SetDownloadStatus(download_queue, aid, "FAILED") ELSE download_queue
    /\ stats' = [stats EXCEPT !.failed = @ + 1]
    /\ dl_unstored' = IF stored THEN {} ELSE {"FAILED"}
    /\ dl_writes' = Append(dl_writes, StatusCall(aid, "FAILED", stored))
    /\ UNCHANGED dl_completed

\* Mutant: the loop does not look for an existing archive.
ExistingTarball_NeverFound(aid) == FALSE

\* next(p for p in tarball_dir.iterdir() if p.is_file() and p.name.startswith(arxiv_id))
ExistingTarball(aid) == \E name \in tarball_dir : IsPrefix(aid, name)

\* for arxiv_id in pending_ids: stats["attempted"] += 1; the reuse shortcut,
\* or the call of the chain, whose first handler starts its fetch
BeginItem ==
    /\ dl_pc = "loop"
    /\ dl_i < Len(pending_ids)
    /\ dl_i' = dl_i + 1
    /\ attempts' = <<>>
    /\ LET aid == pending_ids[dl_i + 1]
           st == [stats EXCEPT !.attempted = @ + 1]
       IN  IF ExistingTarball(aid)
           THEN /\ \E stored, stored2 \in BOOLEAN :
                        ItemCompleted(aid, download_queue, stored, stored2, st)
                /\ dl_outcome' = "reused"
                /\ UNCHANGED <<dl_pc, dl_h, dl_target>>
           ELSE /\ stats' = st
                /\ dl_pc' = "fetching"
                /\ dl_h' = 1
                /\ dl_target' = aid
                /\ dl_outcome' = "none"
                /\ dl_unstored' = {}
                /\ UNCHANGED <<download_queue, dl_completed, dl_writes>>
    /\ UNCHANGED <<tarball_dir, pending_ids, dl_reprepared, dl_unextracted>>
    /\ UNCHANGED nonDownloadVars

\* Mutant: the previous-version handlers skip only an id without a version
\* suffix, not version 1.
NextHandler_NoVersionGuard(h, aid) ==
    IF h >= 4 THEN 0
    ELSE IF h + 1 >= 3 /\ VersionMark(aid) = 0 THEN 0
    ELSE h + 1

\* super().handle(aid) in the except clause of handler h: the next handler of
\* the chain that starts a fetch (the previous-version handlers pass the call
\* on when _prev_version gives None); 0 when the chain returns False.
NextHandler(h, aid) ==
    IF h >= 4 THEN 0
    ELSE IF h + 1 >= 3 /\ PrevVersion(aid) = NoId THEN 0
    ELSE h + 1

\* Mutant: the previous-version handlers ask for the version of the item.
HandlerTarget_SameVersion(h, aid) == aid

\* The id handler h fetches for item aid.
HandlerTarget(h, aid) == IF h >= 3 THEN PrevVersion(aid) ELSE aid

\* Mutant: the handlers let the path-traversal exception through.
HandlerCatches_NotTraversal(what) == what # "blocked"

\* except Exception as e: in each handler (lines 126, 138, 152, 167)
HandlerCatches(what) == TRUE

\* Mutant: the loop has no handler for RuntimeError("Geen downloadvariant geslaagd").
LoopCatches_NotExhaustion(what) == what # "exhausted"

\* except Exception as e: around the body of the loop (line 195)
LoopCatches(what) == TRUE

\* An exception leaves the chain (or is raised at line 194): the handler of
\* line 195 marks the item FAILED; without it the run raises.
ItemRaised(what) ==
    /\ dl_h' = 0
    /\ dl_target' = NoId
    /\ IF LoopCatches(what)
       THEN /\ \E stored \in BOOLEAN : ItemFailed(CurrentId, stored)
            /\ dl_pc' = "loop"
            /\ dl_outcome' = what
       ELSE /\ dl_pc' = "raised"
            /\ dl_outcome' = what
            /\ UNCHANGED <<download_queue, stats, dl_unstored, dl_completed, dl_writes>>

\* The fetch or the extraction of handler dl_h raised (fetched: the archive
\* the fetch delivered, if it delivered one).
StrategyFailed(what, fetched) ==
    /\ attempts' = Append(attempts, [strategy |-> dl_h, target |-> dl_target, outcome |-> what,
                                     fetched |-> fetched, main_tex |-> {}])
    /\ IF ~HandlerCatches(what)
       THEN ItemRaised("error")
       ELSE LET n == NextHandler(dl_h, CurrentId)
            IN  IF n = 0
                THEN ItemRaised("exhausted")
                ELSE /\ dl_h' = n
                     /\ dl_target' = HandlerTarget(n, CurrentId)
                     /\ UNCHANGED <<download_queue, stats, dl_completed, dl_pc, dl_outcome,
                                    dl_unstored, dl_writes>>

\* return True in a handler; lines 189-192 (fetched: the archive the handler
\* extracted, if it is a source-archive handler; main_tex: what it copied to
\* data/tex)
StrategySucceeded(what, fetched) ==
    /\ attempts' = Append(attempts,
                          [strategy |-> dl_h, target |-> dl_target, outcome |-> what,
                           fetched |-> fetched,
                           main_tex |-> UNION {MainTexCopy(a.files, dl_target) : a \in fetched}])
    /\ \E stored, stored2 \in BOOLEAN : ItemCompleted(CurrentId, download_queue, stored, stored2, stats)
    /\ dl_pc' = "loop"
    /\ dl_h' = 0
    /\ dl_target' = NoId
    /\ dl_outcome' = "chain"

\* client.download_paper_source / download_paper_pdf raises
FetchFails ==
    /\ dl_pc = "fetching"
    /\ StrategyFailed("fetch_failed", {})
    /\ UNCHANGED <<tarball_dir, pending_ids, dl_i, dl_reprepared, dl_unextracted>>
    /\ UNCHANGED nonDownloadVars

\* client.download_paper_pdf returns
PdfFetched ==
    /\ dl_pc = "fetching"
    /\ dl_h \in {2, 4}
    /\ StrategySucceeded("ok", {})
    /\ UNCHANGED <<tarball_dir, pending_ids, dl_i, dl_reprepared, dl_unextracted>>
    /\ UNCHANGED nonDownloadVars

\* client.download_paper_source returns the path of the archive it wrote;
\* _extract_and_copy_main_tex then returns or raises
TarballFetched ==
    /\ dl_pc = "fetching"
    /\ dl_h \in {1, 3}
    /\ tarball_dir' = tarball_dir \cup {TarballName(dl_target)}
    /\ \E archive \in FetchedArchives :
          IF ExtractRaises(archive)
          THEN /\ StrategyFailed(IF archive.readable THEN "blocked" ELSE "unreadable", {archive})
               /\ dl_unextracted' = IF dl_h = 1 THEN dl_unextracted \cup {dl_target}
                                     ELSE dl_unextracted \ {dl_target}
          ELSE /\ StrategySucceeded("ok", {archive})
               /\ dl_unextracted' = dl_unextracted \ {dl_target}
    /\ UNCHANGED <<pending_ids, dl_i, dl_reprepared>>
    /\ UNCHANGED nonDownloadVars

\* return stats: the run is over and its locals are gone
ReturnStats ==
    /\ dl_pc = "loop"
    /\ dl_i = Len(pending_ids)
    /\ dl_pc' = "idle"
    /\ pending_ids' = <<>>
    /\ dl_i' = 0
    /\ stats' = [requested |-> 0, attempted |-> 0, completed |-> 0, failed |-> 0]
    /\ attempts' = <<>>
    /\ dl_outcome' = "none"
    /\ dl_unstored' = {}
    /\ dl_writes' = <<>>
    /\ UNCHANGED <<download_queue, tarball_dir, dl_h, dl_target, dl_completed, dl_reprepared, dl_unextracted>>
    /\ UNCHANGED nonDownloadVars

\* Mutant: download_queue without its primary key.
DistinctSeqs_NoPrimaryKey(S, n) == SeqsUpTo(S, n)

\* The arxiv_id columns a table with PRIMARY KEY (arxiv_id) can hold.
DistinctSeqs(S, n) == {q \in SeqsUpTo(S, n) : \A i, j \in 1..Len(q) : i # j => q[i] # q[j]}

\* The id of a version of the same paper whose digits start with those of
\* version 1: an archive an earlier run left for it can be in the directory.
LaterVersionId == <<"P", "v">> \o Digits(1) \o Digits(0)

DownloadInit ==
    /\ MainTexIdle
    /\ ArxivIdle
    /\ ClassifyIdle
    /\ QueueIdle
    /\ ExtractIdle
    /\ LabelingIdle
    /\ \E ids \in DistinctSeqs(ArxivIds, MaxQueue) :
          download_queue = [k \in 1..Len(ids) |-> NewDownloadJob(ids[k])]
    /\ tarball_dir \in {{}} \cup {{TarballName(a)} : a \in ArxivIds \cup {LaterVersionId}}
    /\ dl_pc = "idle"
    /\ pending_ids = <<>>
    /\ dl_i = 0
    /\ stats = [requested |-> 0, attempted |-> 0, completed |-> 0, failed |-> 0]
    /\ dl_h = 0
    /\ dl_target = NoId
    /\ attempts = <<>>
    /\ dl_outcome = "none"
    /\ dl_unstored = {}
    /\ dl_completed = {}
    /\ dl_writes = <<>>
    /\ dl_reprepared = {}
    /\ dl_unextracted = {}

DownloadNext ==
    \/ PrepareDownload
    \/ StartRun
    \/ BeginItem
    \/ FetchFails
    \/ PdfFetched
    \/ TarballFetched
    \/ ReturnStats

SpecDownloads == DownloadInit /\ [][DownloadNext]_vars

(***************************************************************************)
(* set_download_status called directly on the repository, one call after   *)
(* the other; dl_writes is the log of the calls, stored = FALSE for a call *)
(* that raised.                                                            *)
(***************************************************************************)
MaxCalls == 2

\* if status not in ("PENDING", "COMPLETED", "FAILED"): raise ValueError
AcceptedStatuses == {"PENDING", "COMPLETED", "FAILED"}

\* The values callers pass for status.
StatusArgs == AcceptedStatuses \cup {"RUNNING"}

set_download_status(arxiv_id, status) ==
    /\ dl_pc = "idle"
    /\ Len(dl_writes) < MaxCalls
    /\ IF status \notin AcceptedStatuses
       THEN /\ dl_writes' = Append(dl_writes, StatusCall(arxiv_id, status, FALSE))
            /\ UNCHANGED download_queue
       ELSE /\ download_queue' = SetDownloadStatus(download_queue, arxiv_id, status)
            /\ dl_writes' = Append(dl_writes, StatusCall(arxiv_id, status, TRUE))
    /\ UNCHANGED <<tarball_dir, dl_pc, pending_ids, dl_i, stats, dl_h, dl_target, attempts,
                   dl_outcome, dl_unstored, dl_completed, dl_reprepared, dl_unextracted>>
    /\ UNCHANGED nonDownloadVars

SetStatusCall == \E aid \in ArxivIds : \E status \in StatusArgs : set_download_status(aid, status)

\* download_queue holds jobs of any status; no run is in progress.
SetStatusInit ==
    /\ MainTexIdle
    /\ ArxivIdle
    /\ ClassifyIdle
    /\ QueueIdle
    /\ ExtractIdle
    /\ LabelingIdle
    /\ \E ids \in DistinctSeqs(ArxivIds, MaxQueue) :
          \E sts \in [1..Len(ids) -> AcceptedStatuses] :
             download_queue = [k \in 1..Len(ids) |->
                                  [NewDownloadJob(ids[k]) EXCEPT !.download_status = sts[k]]]
    /\ tarball_dir = {}
    /\ dl_pc = "idle"
    /\ pending_ids = <<>>
    /\ dl_i = 0
    /\ stats = [requested |-> 0, attempted |-> 0, completed |-> 0, failed |-> 0]
    /\ dl_h = 0
    /\ dl_target = NoId
    /\ attempts = <<>>
    /\ dl_outcome = "none"
    /\ dl_unstored = {}
    /\ dl_completed = {}
    /\ dl_writes = <<>>
    /\ dl_reprepared = {}
    /\ dl_unextracted = {}

SetStatusNext == SetStatusCall

SpecSetStatus == SetStatusInit /\ [][SetStatusNext]_vars

(***************************************************************************)
(* One call of _extract_and_copy_main_tex(tarball_path, aid), statement by *)
(* statement: the scratch directory, the extraction, the copy of the main  *)
(* .tex file, the cleanup.                                                 *)
(***************************************************************************)
MaxFiles == 2

MaxSize == 1

\* The directories of the scratch directory os.walk visits, top-down.
WalkRoots == <<<<>>, <<"sub">>>>

WalkNames == {<<"a", ".", "t", "e", "x">>, <<"B", ".", "T", "E", "X">>,
              <<"c", ".", "t", "x", "t">>}

\* The files os.walk can list: a file whose stat() raises has no size to read.
WalkEntries ==
    {[root |-> WalkRoots[r], name |-> n, size |-> sz, stat_ok |-> ok] :
        r \in 1..Len(WalkRoots), n \in WalkNames, sz \in 0..MaxSize, ok \in BOOLEAN}

RootIndex(root) == CHOOSE r \in 1..Len(WalkRoots) : WalkRoots[r] = root

\* os.walk lists every path once, and the files of a directory before the
\* files of the directories below it.
IsWalk(files) ==
    /\ \A i \in 1..Len(files) : files[i].stat_ok \/ files[i].size = 0
    /\ \A i, j \in 1..Len(files) :
          i < j => /\ <<files[i].root, files[i].name>> # <<files[j].root, files[j].name>>
                   /\ RootIndex(files[i].root) <= RootIndex(files[j].root)

Walks == {files \in SeqsUpTo(WalkEntries, MaxFiles) : IsWalk(files)}

\* The archives at tarball_path: one that extracts to each walk, one with an
\* entry that climbs out of the scratch directory, one tarfile.open cannot read.
WalkedArchives ==
    {[readable |-> TRUE, members |-> <<[abs |-> FALSE, parts |-> <<"e">>]>>, files |-> files] :
        files \in Walks}
    \cup {TraversalArchive, UnreadableArchive}

\* extracted_dir.mkdir(parents=True, exist_ok=True)
MakeExtractedDir ==
    /\ mt_pc = "mkdir"
    /\ extracted_dir' = [extracted_dir EXCEPT !.exists = TRUE]
    /\ mt_pc' = "open"
    /\ UNCHANGED <<mt_archive, mt_aid, tarball_on_disk, tex_out_dir, mt_rmtree>>
    /\ UNCHANGED nonMainTexVars

\* with tarfile.open(tarball_path, "r:*") as tf: _safe_extract(tf, str(extracted_dir))
\* An exception of tarfile.open or of _safe_extract leaves the function here.
OpenAndSafeExtract ==
    /\ mt_pc = "open"
    /\ IF ExtractRaises(mt_archive)
       THEN /\ mt_pc' = "raised"
            /\ UNCHANGED extracted_dir
       ELSE /\ mt_pc' = "walk"
            /\ extracted_dir' = [exists |-> TRUE, files |-> mt_archive.files]
    /\ UNCHANGED <<mt_archive, mt_aid, tarball_on_disk, tex_out_dir, mt_rmtree>>
    /\ UNCHANGED nonMainTexVars

\* The walk, and shutil.copy2(str(largest_tex), str(dest)) when largest_tex is
\* not None: the copy replaces a file that is at dest.
CopyLargestTex ==
    /\ mt_pc = "walk"
    /\ LET copied == MainTexCopy(extracted_dir.files, mt_aid)
       IN  tex_out_dir' = {f \in tex_out_dir : \A c \in copied : f.dest # c.dest} \cup copied
    /\ mt_pc' = "cleanup"
    /\ UNCHANGED <<mt_archive, mt_aid, tarball_on_disk, extracted_dir, mt_rmtree>>
    /\ UNCHANGED nonMainTexVars

\* try: shutil.rmtree(extracted_dir) except Exception: logger.warning(...)
RemoveExtractedDir(removed) ==
    /\ mt_pc = "cleanup"
    /\ IF removed
       THEN /\ extracted_dir' = [exists |-> FALSE, files |-> <<>>]
            /\ mt_rmtree' = "removed"
       ELSE /\ mt_rmtree' = "failed"
            /\ UNCHANGED extracted_dir
    /\ mt_pc' = "returned"
    /\ UNCHANGED <<mt_archive, mt_aid, tarball_on_disk, tex_out_dir>>
    /\ UNCHANGED nonMainTexVars

RmtreeReturns == RemoveExtractedDir(TRUE)

RmtreeRaises == RemoveExtractedDir(FALSE)

\* The call is made with the archive a fetch wrote to tarball_path; the
\* scratch directory of aid is absent, or left empty by an earlier call
\* that raised.
MainTexInit ==
    /\ ArxivIdle
    /\ QueueIdle
    /\ ExtractIdle
    /\ DownloadIdle
    /\ LabelingIdle
    /\ ClassifyIdle
    /\ mt_archive \in WalkedArchives
    /\ mt_aid \in ArxivIds
    /\ mt_pc = "mkdir"
    /\ tarball_on_disk = TRUE
    /\ extracted_dir \in {[exists |-> e, files |-> <<>>] : e \in BOOLEAN}
    /\ tex_out_dir = {}
    /\ mt_rmtree = "none"

MainTexNext ==
    \/ MakeExtractedDir
    \/ OpenAndSafeExtract
    \/ CopyLargestTex
    \/ RmtreeReturns
    \/ RmtreeRaises

SpecMainTex == MainTexInit /\ [][MainTexNext]_vars

(***************************************************************************)
(* ArxivClient._enforce_rate_limit, called by one thread, one call after   *)
(* the other.  Time is counted in whole seconds; time.time() does not run  *)
(* backwards.                                                              *)
(***************************************************************************)
MaxTime == 12

MaxRequests == 3

\* PROCESSING_CONFIG["api_rate_limit_seconds"]
rate_limit == 3

\* Mutant: the limiter never sleeps.
SleepTime_Never(current_time, last, limit) == 0

\* The sleep the call asks for (0: none):
\* if time_since_last < self.rate_limit: sleep_time = self.rate_limit - time_since_last
SleepTime(current_time, last, limit) ==
    LET time_since_last == current_time - last
    IN  IF time_since_last < limit THEN limit - time_since_last ELSE 0

\* The call up to time.sleep, or up to line 39 when it does not sleep.
EnforceRateLimit ==
    /\ rl_pc = "idle"
    /\ Len(rl_calls) < MaxRequests
    /\ LET sleep_time == SleepTime(now, last_request_time, rate_limit)
       IN  /\ rl_calls' = Append(rl_calls, [current_time |-> now, sleep_time |-> sleep_time,
                                            recorded |-> {}])
           /\ rl_pc' = IF sleep_time > 0 THEN "sleep" ELSE "record"
    /\ UNCHANGED <<now, last_request_time>>
    /\ UNCHANGED nonArxivVars

\* time.sleep(sleep_time) returns: at least sleep_time seconds have passed.
SleepReturns ==
    /\ rl_pc = "sleep"
    /\ \E late \in 0..1 :
          /\ now + rl_calls[Len(rl_calls)].sleep_time + late <= MaxTime
          /\ now' = now + rl_calls[Len(rl_calls)].sleep_time + late
    /\ rl_pc' = "record"
    /\ UNCHANGED <<last_request_time, rl_calls>>
    /\ UNCHANGED nonArxivVars

\* self.last_request_time = time.time()
RecordRequest ==
    /\ rl_pc = "record"
    /\ last_request_time' = now
    /\ rl_calls' = [rl_calls EXCEPT ![Len(rl_calls)].recorded = {now}]
    /\ rl_pc' = "idle"
    /\ UNCHANGED now
    /\ UNCHANGED nonArxivVars

\* A second passes while the thread is not in time.sleep.
Tick ==
    /\ rl_pc # "sleep"
    /\ now < MaxTime
    /\ now' = now + 1
    /\ UNCHANGED <<last_request_time, rl_pc, rl_calls>>
    /\ UNCHANGED nonArxivVars

\* ArxivClient(): self.last_request_time = 0, and time.time() is the time
\* since the epoch, far more than rate_limit.
RateLimitInit ==
    /\ MainTexIdle
    /\ QueueIdle
    /\ ExtractIdle
    /\ DownloadIdle
    /\ LabelingIdle
    /\ ClassifyIdle
    /\ now \in {rate_limit, rate_limit + 1}
    /\ last_request_time = 0
    /\ rl_pc = "idle"
    /\ rl_calls = <<>>

RateLimitNext ==
    \/ EnforceRateLimit
    \/ SleepReturns
    \/ RecordRequest
    \/ Tick

SpecRateLimit == RateLimitInit /\ [][RateLimitNext]_vars

(***************************************************************************)
(* _run_labeling_async: the producer pops and enriches, the consumer       *)
(* starts one classification task per enriched job.  A job of the run is   *)
(* known by its number in raw_jobs.                                        *)
(***************************************************************************)
MaxJobs == 3

\* The configured ceiling of classifier backend calls in flight.
Ceiling == 2

Sentinel == 0

TextKinds == {"missing", "empty", "full"}

\* confidence_score of a structured result: None, or a score (in hundredths)
NoConfidence == <<>>

Confidences == {NoConfidence, <<90>>}

\* What classify_title_abstract_structured_async hands to the consumer: the
\* dict with answer_value and confidence_score, or an exception.
Verdict(answer, confidence) ==
    [kind |-> "dict", answer_value |-> answer, confidence_score |-> confidence]

Raised == [kind |-> "raised", answer_value |-> FALSE, confidence_score |-> NoConfidence]

\* No result yet.
NoVerdict == [kind |-> "none", answer_value |-> FALSE, confidence_score |-> NoConfidence]

ClassifyResults == {Verdict(TRUE, c) : c \in Confidences} \cup {Verdict(FALSE, NoConfidence), Raised}

JobNumbers == 1..Len(jobs)

\* A job of the run: stage "enriching" | "enrich_failed" | "skipped" |
\* "queued" | "task" | "calling" | "upserting" | "done" | "task_failed"; result is what its
\* classification gave, calls counts its backend calls and upsert holds the
\* row of its upsert_metadata_label call; task_no tells when the consumer
\* created its classification task: 0 no task yet, 1 the first task of the
\* run, 2 a later one.
NewJob(pair) ==
    [metadata_id |-> pair[1], question_id |-> pair[2], stage |-> "enriching",
     result |-> NoVerdict, calls |-> 0, upsert |-> {}, task_no |-> 0]

ZeroStats == [processed |-> 0, labeled |-> 0, skipped_missing |-> 0, errors |-> 0]

\* Mutant: a client that cannot be built is handed on as None.
EnterRaises_Swallowed(built) == FALSE

\* __aenter__ raises RuntimeError when the client cannot be built
EnterRaises(built) == ~built

\* run_labeling(labeling_jobs) up to the first pop: async with enters the
\* client, and the exception of __aenter__ leaves the run at once
RunLabeling(labeling_jobs, built) ==
    /\ lab_pc = "idle"
    /\ lab_pc' = IF EnterRaises(built) THEN "raised" ELSE "popping"
    /\ lab_client' = IF built THEN "built" ELSE "failed"
    /\ queue_at_start' = labeling_queue
    /\ lab_limit' = labeling_jobs
    /\ pop_calls' = 0
    /\ pop_none' = FALSE
    /\ pops_left' = labeling_jobs
    /\ lab_stats' = ZeroStats
    /\ jobs' = <<>>
    /\ enriched_queue' = <<>>
    /\ sentinel_put' = FALSE
    /\ cons_pc' = "get"
    /\ UNCHANGED <<labeling_queue, questions, texts, metadata_labels, last_upsert>>
    /\ UNCHANGED nonLabelingVars

StartLabeling ==
    \E labeling_jobs \in 1..MaxJobs, built \in BOOLEAN : RunLabeling(labeling_jobs, built)

\* Mutant: the loop goes on after a pop that gave nothing.
BreakOnNone_Never == FALSE

\* if not job: break
BreakOnNone == TRUE

\* One iteration of the loop of fetch_jobs_from_queue: pop_next_labeling_job
\* (no other caller runs here), break on None; after the loop enrich_stream
\* creates one _enrich task per fetched job.
PopJob ==
    /\ lab_pc = "popping"
    /\ IF pops_left = 0
       THEN /\ lab_pc' = "running"
            /\ UNCHANGED <<labeling_queue, jobs, pops_left, pop_calls, pop_none>>
       ELSE /\ pop_calls' = pop_calls + 1
            /\ IF labeling_queue = {}
               THEN /\ pop_none' = TRUE
                    /\ IF BreakOnNone
                       THEN lab_pc' = "running" /\ UNCHANGED pops_left
                       ELSE pops_left' = pops_left - 1 /\ UNCHANGED lab_pc
                    /\ UNCHANGED <<labeling_queue, jobs>>
               ELSE /\ jobs' = Append(jobs, NewJob(FirstRow(labeling_queue)))
                    /\ labeling_queue' = labeling_queue \ {FirstRow(labeling_queue)}
                    /\ pops_left' = pops_left - 1
                    /\ UNCHANGED <<lab_pc, pop_none>>
    /\ UNCHANGED <<lab_client, queue_at_start, lab_limit, last_upsert>>
    /\ UNCHANGED <<questions, texts, metadata_labels, enriched_queue, sentinel_put, cons_pc,
                   lab_stats>>
    /\ UNCHANGED nonLabelingVars

\* Mutant: _enrich does not look at the result of get_title_and_abstract.
Resolved_QuestionOnly(job) == job.question_id \in questions

\* _enrich: get_question_by_id gives a row and get_title_and_abstract gives one
Resolved(job) == job.question_id \in questions /\ texts[job.metadata_id] # "missing"

\* Mutant: a job whose lookup raised is written back to labeling_queue.
Enrich_Requeues(j) ==
    /\ lab_pc = "running"
    /\ jobs[j].stage = "enriching"
    /\ \E lookup_raises \in BOOLEAN :
          IF lookup_raises
          THEN /\ jobs' = [jobs EXCEPT ![j].stage = "enrich_failed"]
               /\ lab_pc' = "raised"
               /\ labeling_queue' = labeling_queue \cup {<<jobs[j].metadata_id, jobs[j].question_id>>}
               /\ UNCHANGED <<enriched_queue, lab_stats>>
          ELSE /\ IF Resolved(jobs[j])
                  THEN /\ jobs' = [jobs EXCEPT ![j].stage = "queued"]
                       /\ enriched_queue' = Append(enriched_queue, j)
                       /\ UNCHANGED lab_stats
                  ELSE /\ jobs' = [jobs EXCEPT ![j].stage = "skipped"]
                       /\ lab_stats' = [lab_stats EXCEPT !.skipped_missing = @ + 1]
                       /\ UNCHANGED enriched_queue
               /\ UNCHANGED <<lab_pc, labeling_queue>>
    /\ UNCHANGED <<questions, texts, metadata_labels, pops_left, sentinel_put, cons_pc>>
    /\ UNCHANGED labelingHistory
    /\ UNCHANGED nonLabelingVars

\* The _enrich task of job j ends, and enrich_stream and the producer hand
\* its result on: skipped_missing += 1, or enriched_queue.put(ej); when a
\* lookup of the store raises, the task ends with the exception, "await fut"
\* re-raises it in the producer, and the gather of producer and consumer
\* hands it to the caller of the run
Enrich(j) ==
    /\ lab_pc = "running"
    /\ jobs[j].stage = "enriching"
    /\ \E lookup_raises \in BOOLEAN :
          IF lookup_raises
          THEN /\ jobs' = [jobs EXCEPT ![j].stage = "enrich_failed"]
               /\ lab_pc' = "raised"
               /\ UNCHANGED <<enriched_queue, lab_stats>>
          ELSE /\ IF Resolved(jobs[j])
                  THEN /\ jobs' = [jobs EXCEPT ![j].stage = "queued"]
                       /\ enriched_queue' = Append(enriched_queue, j)
                       /\ UNCHANGED lab_stats
                  ELSE /\ jobs' = [jobs EXCEPT ![j].stage = "skipped"]
                       /\ lab_stats' = [lab_stats EXCEPT !.skipped_missing = @ + 1]
                       /\ UNCHANGED enriched_queue
               /\ UNCHANGED lab_pc
    /\ UNCHANGED <<labeling_queue, questions, texts, metadata_labels, pops_left,
                   sentinel_put, cons_pc>>
    /\ UNCHANGED labelingHistory
    /\ UNCHANGED nonLabelingVars

\* Mutant: the sentinel is put without waiting for the _enrich tasks.
PutSentinel_Early ==
    /\ lab_pc = "running"
    /\ ~sentinel_put
    /\ sentinel_put' = TRUE
    /\ enriched_queue' = Append(enriched_queue, Sentinel)
    /\ UNCHANGED <<labeling_queue, questions, texts, metadata_labels, lab_pc, pops_left, jobs,
                   cons_pc, lab_stats>>
    /\ UNCHANGED labelingHistory
    /\ UNCHANGED nonLabelingVars

\* await enriched_queue.put(None), after the last _enrich task
PutSentinel ==
    /\ lab_pc = "running"
    /\ ~sentinel_put
    /\ \A j \in JobNumbers : jobs[j].stage # "enriching"
    /\ sentinel_put' = TRUE
    /\ enriched_queue' = Append(enriched_queue, Sentinel)
    /\ UNCHANGED <<labeling_queue, questions, texts, metadata_labels, lab_pc, pops_left, jobs,
                   cons_pc, lab_stats>>
    /\ UNCHANGED labelingHistory
    /\ UNCHANGED nonLabelingVars

\* The classification tasks that have not ended.
classify_tasks == {j \in JobNumbers : jobs[j].stage \in {"task", "calling", "upserting"}}

\* One iteration of the loop of the consumer: item = await enriched_queue.get();
\* create_task(classify_and_handle(item)), or break on the sentinel and gather
\* the tasks that have not ended (none: the consumer is done)
ConsumerGet ==
    /\ lab_pc = "running"
    /\ cons_pc = "get"
    /\ enriched_queue # <<>>
    /\ enriched_queue' = Tail(enriched_queue)
    /\ IF Head(enriched_queue) = Sentinel
       THEN /\ cons_pc' = IF classify_tasks = {} THEN "done" ELSE "gather"
            /\ UNCHANGED jobs
       ELSE /\ jobs' = [jobs EXCEPT ![Head(enriched_queue)].stage = "task",
                                    ![Head(enriched_queue)].task_no =
                                        IF \A i \in JobNumbers : jobs[i].task_no = 0
                                        THEN 1 ELSE 2]
            /\ UNCHANGED cons_pc
    /\ UNCHANGED <<labeling_queue, questions, texts, metadata_labels, lab_pc, pops_left,
                   sentinel_put, lab_stats>>
    /\ UNCHANGED labelingHistory
    /\ UNCHANGED nonLabelingVars

\* The classifier backend calls in flight.
InFlight == Cardinality({j \in JobNumbers : jobs[j].stage = "calling"})

\* Mutant: the classifier calls the backend without asking the limiter.
LimiterFree_NoLimiter == TRUE

\* The limiter of the classifier admits a call while fewer than Ceiling are in flight.
LimiterFree == InFlight < Ceiling

\* Mutant: every verdict is written.
ShouldUpsert_AnyVerdict(structured) == TRUE

\* if not bool(structured.get("answer_value")): return
ShouldUpsert(structured) == structured.answer_value

\* Mutant: a plain INSERT, without the ON CONFLICT clause and without the key.
UpsertMetadataLabel_InsertOnly(rows, row) == rows \cup {row}

\* upsert_metadata_label: INSERT ... ON CONFLICT (metadata_id, label_id) DO UPDATE
\* SET confidence_score = EXCLUDED.confidence_score
UpsertMetadataLabel(rows, row) ==
    {r \in rows : ~(r.metadata_id = row.metadata_id /\ r.label_id = row.label_id)} \cup {row}

\* Mutant: a classification that raised is not counted.
HandleResult_ErrorUncounted(j, structured) ==
    /\ UNCHANGED lab_stats
    /\ jobs' = [jobs EXCEPT ![j].stage = "done", ![j].result = structured]

\* classify_and_handle after the await of the classifier, up to its return or
\* to the await of the upsert
HandleResult(j, structured) ==
    IF structured = Raised
    THEN /\ lab_stats' = [lab_stats EXCEPT !.errors = @ + 1]
         /\ jobs' = [jobs EXCEPT ![j].stage = "done", ![j].result = structured]
    ELSE /\ lab_stats' = [lab_stats EXCEPT !.processed = @ + 1]
         /\ IF ShouldUpsert(structured)
            THEN jobs' = [jobs EXCEPT ![j].stage = "upserting", ![j].result = structured,
                                      ![j].upsert = {[metadata_id |-> jobs[j].metadata_id,
                                                      label_id |-> LabelOfQuestion(jobs[j].question_id),
                                                      confidence_score |-> structured.confidence_score]}]
            ELSE jobs' = [jobs EXCEPT ![j].stage = "done", ![j].result = structured]

\* Mutant: the classifier calls the backend whatever the title and abstract are.
ClassifyStart_AlwaysCalls(j) ==
    /\ lab_pc = "running"
    /\ jobs[j].stage = "task"
    /\ LimiterFree
    /\ jobs' = [jobs EXCEPT ![j].stage = "calling", ![j].calls = @ + 1]
    /\ UNCHANGED lab_stats
    /\ UNCHANGED <<labeling_queue, questions, texts, metadata_labels, lab_pc, pops_left,
                   enriched_queue, sentinel_put, cons_pc>>
    /\ UNCHANGED labelingHistory
    /\ UNCHANGED nonLabelingVars

\* The task of job j runs up to its first await: the classifier returns the
\* default result at once for an empty title or abstract, and otherwise calls
\* the backend once the limiter admits the call.
ClassifyStart(j) ==
    /\ lab_pc = "running"
    /\ jobs[j].stage = "task"
    /\ IF texts[jobs[j].metadata_id] = "empty"
       THEN HandleResult(j, Verdict(FALSE, NoConfidence))
       ELSE /\ LimiterFree
            /\ jobs' = [jobs EXCEPT ![j].stage = "calling", ![j].calls = @ + 1]
            /\ UNCHANGED lab_stats
    /\ UNCHANGED <<labeling_queue, questions, texts, metadata_labels, lab_pc, pops_left,
                   enriched_queue, sentinel_put, cons_pc>>
    /\ UNCHANGED labelingHistory
    /\ UNCHANGED nonLabelingVars

\* The backend call of job j ends and the classifier returns (or raises)
BackendReturns(j) ==
    /\ lab_pc = "running"
    /\ jobs[j].stage = "calling"
    /\ \E structured \in ClassifyResults : HandleResult(j, structured)
    /\ UNCHANGED <<labeling_queue, questions, texts, metadata_labels, lab_pc, pops_left,
                   enriched_queue, sentinel_put, cons_pc>>
    /\ UNCHANGED labelingHistory
    /\ UNCHANGED nonLabelingVars

\* Mutant: the upsert of a task waits for the tasks created before it.
UpsertReturns_InSubmissionOrder(j) ==
    /\ lab_pc = "running"
    /\ jobs[j].stage = "upserting"
    /\ \A i \in JobNumbers :
          (0 < jobs[i].task_no /\ jobs[i].task_no < jobs[j].task_no) =>
              jobs[i].stage \in {"done", "task_failed"}
    /\ \E ok \in BOOLEAN :
          IF ok
          THEN /\ \E row \in jobs[j].upsert :
                     /\ metadata_labels' = UpsertMetadataLabel(metadata_labels, row)
                     /\ last_upsert' = [last_upsert EXCEPT ![<<row.metadata_id, row.label_id>>] =
                                            {[confidence_score |-> row.confidence_score,
                                              repeated |-> @ # {}]}]
               /\ lab_stats' = [lab_stats EXCEPT !.labeled = @ + 1]
               /\ jobs' = [jobs EXCEPT ![j].stage = "done"]
               /\ UNCHANGED lab_pc
          ELSE /\ jobs' = [jobs EXCEPT ![j].stage = "task_failed"]
               /\ lab_pc' = IF cons_pc = "gather" THEN "raised" ELSE lab_pc
               /\ UNCHANGED <<metadata_labels, lab_stats, last_upsert>>
    /\ UNCHANGED <<labeling_queue, questions, texts, pops_left, enriched_queue, sentinel_put,
                   cons_pc>>
    /\ UNCHANGED <<lab_client, queue_at_start, lab_limit, pop_calls, pop_none>>
    /\ UNCHANGED nonLabelingVars

\* await asyncio.to_thread(database.upsert_metadata_label, ...) ends:
\* stats["labeled"] += 1, or the call raised and the task ends with that
\* exception, which the gather of the consumer re-raises when it holds the task
UpsertReturns(j) ==
    /\ lab_pc = "running"
    /\ jobs[j].stage = "upserting"
    /\ \E ok \in BOOLEAN :
          IF ok
          THEN /\ \E row \in jobs[j].upsert :
                     /\ metadata_labels' = UpsertMetadataLabel(metadata_labels, row)
                     /\ last_upsert' = [last_upsert EXCEPT ![<<row.metadata_id, row.label_id>>] =
                                            {[confidence_score |-> row.confidence_score,
                                              repeated |-> @ # {}]}]
               /\ lab_stats' = [lab_stats EXCEPT !.labeled = @ + 1]
               /\ jobs' = [jobs EXCEPT ![j].stage = "done"]
               /\ UNCHANGED lab_pc
          ELSE /\ jobs' = [jobs EXCEPT ![j].stage = "task_failed"]
               /\ lab_pc' = IF cons_pc = "gather" THEN "raised" ELSE lab_pc
               /\ UNCHANGED <<metadata_labels, lab_stats, last_upsert>>
    /\ UNCHANGED <<labeling_queue, questions, texts, pops_left, enriched_queue, sentinel_put,
                   cons_pc>>
    /\ UNCHANGED <<lab_client, queue_at_start, lab_limit, pop_calls, pop_none>>
    /\ UNCHANGED nonLabelingVars

\* asyncio.gather(producer(), consumer()) ends; return stats
ReturnLabeling ==
    /\ lab_pc = "running"
    /\ cons_pc \in {"gather", "done"}
    /\ classify_tasks = {}
    /\ lab_pc' = "returned"
    /\ cons_pc' = "done"
    /\ UNCHANGED <<labeling_queue, questions, texts, metadata_labels, pops_left, jobs,
                   enriched_queue, sentinel_put, lab_stats>>
    /\ UNCHANGED labelingHistory
    /\ UNCHANGED nonLabelingVars

\* The tables as a run finds them: any queue of jobs for papers 1 and 2,
\* question 2 possibly deleted, the paper of metadata id 1 possibly deleted or
\* without title or abstract.
LabelingInit ==
    /\ MainTexIdle
    /\ ArxivIdle
    /\ ClassifyIdle
    /\ ExtractIdle
    /\ DownloadIdle
    /\ labeling_queue \in SUBSET ({1, 2} \X QuestionIds)
    /\ pop_pc = [c \in Callers |-> "idle"]
    /\ pop_row = [c \in Callers |-> NoRow]
    /\ pop_rowcount = [c \in Callers |-> 0]
    /\ pop_ret = [c \in Callers |-> NoRow]
    /\ watched = <<1, 1>>
    /\ delivered = 0
    /\ questions \in {QuestionIds, QuestionIds \ {2}}
    /\ \E kind \in TextKinds : texts = [m \in MetadataIds |-> IF m = 1 THEN kind ELSE "full"]
    /\ metadata_labels = {}
    /\ lab_pc = "idle"
    /\ pops_left = 0
    /\ jobs = <<>>
    /\ enriched_queue = <<>>
    /\ sentinel_put = FALSE
    /\ cons_pc = "get"
    /\ lab_stats = ZeroStats
    /\ lab_client = "none"
    /\ queue_at_start = {}
    /\ lab_limit = 0
    /\ pop_calls = 0
    /\ pop_none = FALSE
    /\ last_upsert = [key \in LabelKeys |-> {}]

LabelingNext ==
    \/ StartLabeling
    \/ PopJob
    \/ \E j \in JobNumbers : Enrich(j)
    \/ PutSentinel
    \/ ConsumerGet
    \/ \E j \in JobNumbers : ClassifyStart(j)
    \/ \E j \in JobNumbers : BackendReturns(j)
    \/ \E j \in JobNumbers : UpsertReturns(j)
    \/ ReturnLabeling

SpecLabeling == LabelingInit /\ [][LabelingNext]_vars

\* The run under the scheduling of asyncio.run: the event loop goes on running
\* the tasks that are ready, and every store and backend call that was made
\* returns or raises, so a step that can be taken is not put off for ever.
SpecLabelingFair == SpecLabeling /\ WF_vars(LabelingNext)

(***************************************************************************)
(* LabelsRepository.upsert_metadata_label called on its own, one call      *)
(* after the other (each call is one transaction of one statement).        *)
(***************************************************************************)
\* The confidence_score values passed: None, or a score in hundredths.
UpsertConfidences == Confidences \cup {<<50>>}

\* The metadata_id "" and a label_id that is not a positive integer.
EmptyMetadataId == 0

NotALabelId == 0

\* if not metadata_id: raise ValueError
\* if not isinstance(label_id, int) or label_id <= 0: raise ValueError
UpsertArgsValid(metadata_id, label_id) == metadata_id # EmptyMetadataId /\ label_id > 0

\* One call: the ValueError leaves the table alone, else the statement is
\* executed and committed.
upsert_metadata_label(metadata_id, label_id, confidence_score) ==
    /\ lab_pc = "idle"
    /\ IF UpsertArgsValid(metadata_id, label_id)
       THEN /\ metadata_labels' =
                  UpsertMetadataLabel(metadata_labels,
                                      [metadata_id |-> metadata_id, label_id |-> label_id,
                                       confidence_score |-> confidence_score])
            /\ last_upsert' = [last_upsert EXCEPT ![<<metadata_id, label_id>>] =
                                   {[confidence_score |-> confidence_score, repeated |-> @ # {}]}]
       ELSE UNCHANGED <<metadata_labels, last_upsert>>
    /\ UNCHANGED <<labeling_queue, questions, texts, lab_pc, pops_left, jobs, enriched_queue,
                   sentinel_put, cons_pc, lab_stats, lab_client, queue_at_start, lab_limit,
                   pop_calls, pop_none>>
    /\ UNCHANGED nonLabelingVars

UpsertCall ==
    \E metadata_id \in MetadataIds \cup {EmptyMetadataId},
       label_id \in LabelIds \cup {NotALabelId},
       confidence_score \in UpsertConfidences :
        upsert_metadata_label(metadata_id, label_id, confidence_score)

LabelsInit ==
    /\ MainTexIdle
    /\ ArxivIdle
    /\ QueueIdle
    /\ ExtractIdle
    /\ DownloadIdle
    /\ ClassifyIdle
    /\ LabelingIdle

LabelsNext == UpsertCall

SpecLabels == LabelsInit /\ [][LabelsNext]_vars

(***************************************************************************)
(* LLMChecker.  A Python str is modelled as the sequence of its            *)
(* characters; a float as an integer number of 1/Scale (parsed decimals    *)
(* carry at most four places, so every value of the model is exact).       *)
(***************************************************************************)
Scale == 100 * 100

Whitespace == {" ", "\n", "\t", "\r"}

\* str.lstrip()
RECURSIVE LStrip(_)
LStrip(text) ==
    IF text # <<>> /\ Head(text) \in Whitespace THEN LStrip(Tail(text)) ELSE text

\* str.rstrip()
RECURSIVE RStrip(_)
RStrip(text) ==
    IF text # <<>> /\ text[Len(text)] \in Whitespace
    THEN RStrip(SubSeq(text, 1, Len(text) - 1))
    ELSE text

\* str.strip()
Strip(text) == RStrip(LStrip(text))

\* sub in text
Contains(sub, text) ==
    \E i \in 1..(Len(text) - Len(sub) + 1) : SubSeq(text, i, i + Len(sub) - 1) = sub

\* Optional[bool] and Optional[float]: "True" | "False" | "None", and <<>> or <<n>>
OptBool(b) == IF b THEN "True" ELSE "False"

(***************************************************************************)
(* json.loads on the texts of the model: a scalar (true, false, null, a    *)
(* decimal number, a string without escapes) or an object of scalars.      *)
(* A value is [kind, b, s, n] with kind "bool" | "string" | "number" |     *)
(* "null"; a parse gives [ok, val, rest].                                  *)
(***************************************************************************)
JBool(b) == [kind |-> "bool", b |-> b, s |-> <<>>, n |-> 0]

JString(s) == [kind |-> "string", b |-> FALSE, s |-> s, n |-> 0]

JNumber(n) == [kind |-> "number", b |-> FALSE, s |-> <<>>, n |-> n]

JNull == [kind |-> "null", b |-> FALSE, s |-> <<>>, n |-> 0]

ParseFail == [ok |-> FALSE, val |-> JNull, rest |-> <<>>]

Parsed(val, rest) == [ok |-> TRUE, val |-> val, rest |-> rest]

Drop(text, k) == SubSeq(text, k + 1, Len(text))

\* The leading run of digits of a text.
RECURSIVE DigitRun(_)
DigitRun(text) ==
    IF text # <<>> /\ IsDigit(Head(text)) THEN <<Head(text)>> \o DigitRun(Tail(text)) ELSE <<>>

\* Four decimal places of a fraction, as a number of 1/Scale.
FractionValue(ds) ==
    LET padded == SubSeq(ds \o <<"0", "0", "0", "0">>, 1, 4)
    IN  ParseInt(padded)

\* -?digits(.digits)?
ParseNumber(text) ==
    LET Signed(neg, t1) ==
            LET WithInt(ip) ==
                    LET WithRest(t2) ==
                            LET WithFrac(hasFrac) ==
                                    LET Number(fp) ==
                                            LET Value(mag) ==
                                                    Parsed(JNumber(IF neg THEN 0 - mag ELSE mag),
                                                           IF hasFrac THEN Drop(t2, 1 + Len(fp)) ELSE t2)
                                            IN  IF Len(fp) > 4 THEN ParseFail
                                                ELSE Value(ParseInt(ip) * Scale
                                                           + (IF hasFrac THEN FractionValue(fp) ELSE 0))
                                    IN  Number(IF hasFrac THEN DigitRun(Tail(t2)) ELSE <<>>)
                            IN  WithFrac(Len(t2) >= 2 /\ t2[1] = "." /\ IsDigit(t2[2]))
                    IN  IF ip = <<>> THEN ParseFail ELSE WithRest(Drop(t1, Len(ip)))
            IN  WithInt(DigitRun(t1))
    IN  IF text # <<>> /\ Head(text) = "-" THEN Signed(TRUE, Tail(text)) ELSE Signed(FALSE, text)

\* "..." without escapes
ParseString(text) ==
    LET Closed(closing) ==
            LET At(i) == Parsed(JString(SubSeq(text, 2, i - 1)), Drop(text, i))
            IN  IF closing = {} THEN ParseFail
                ELSE At(CHOOSE k \in closing : \A j \in closing : k <= j)
    IN  IF text = <<>> \/ Head(text) # "\"" THEN ParseFail
        ELSE Closed({i \in 2..Len(text) : text[i] = "\""})

ParseScalar(text) ==
    IF IsPrefix(<<"t", "r", "u", "e">>, text) THEN Parsed(JBool(TRUE), Drop(text, 4))
    ELSE IF IsPrefix(<<"f", "a", "l", "s", "e">>, text) THEN Parsed(JBool(FALSE), Drop(text, 5))
    ELSE IF IsPrefix(<<"n", "u", "l", "l">>, text) THEN Parsed(JNull, Drop(text, 4))
    ELSE IF text # <<>> /\ Head(text) = "\"" THEN ParseString(text)
    ELSE ParseNumber(text)

\* The members of an object after "{": [ok, members, rest], members in order
RECURSIVE ParseMembers(_, _)
ParseMembers(text, members) ==
    LET failed == [ok |-> FALSE, members |-> <<>>, rest |-> <<>>]
        Keyed(key) ==
            LET Coloned(t1) ==
                    LET Valued(val) ==
                            LET Next(t2, got) ==
                                    IF t2 = <<>> THEN failed
                                    ELSE IF Head(t2) = "}"
                                    THEN [ok |-> TRUE, members |-> got, rest |-> Tail(t2)]
                                    ELSE IF Head(t2) = "," THEN ParseMembers(Tail(t2), got)
                                    ELSE failed
                            IN  IF ~val.ok THEN failed
                                ELSE Next(LStrip(val.rest),
                                          Append(members, [key |-> key.val.s, val |-> val.val]))
                    IN  IF t1 = <<>> \/ Head(t1) # ":" THEN failed
                        ELSE Valued(ParseScalar(LStrip(Tail(t1))))
            IN  IF ~key.ok THEN failed ELSE Coloned(LStrip(key.rest))
    IN  Keyed(ParseString(LStrip(text)))

\* json.loads(text): [ok, isdict, members, val]; ok FALSE stands for the
\* JSONDecodeError
JsonLoads(text) ==
    LET failed == [ok |-> FALSE, isdict |-> FALSE, members |-> <<>>, val |-> JNull]
        Object(ms) ==
            IF ms.ok /\ LStrip(ms.rest) = <<>>
            THEN [ok |-> TRUE, isdict |-> TRUE, members |-> ms.members, val |-> JNull]
            ELSE failed
        Scalar(v) ==
            IF v.ok /\ LStrip(v.rest) = <<>>
            THEN [ok |-> TRUE, isdict |-> FALSE, members |-> <<>>, val |-> v.val]
            ELSE failed
        Braced(inner) ==
            IF inner # <<>> /\ Head(inner) = "}"
            THEN IF LStrip(Tail(inner)) = <<>>
                 THEN [ok |-> TRUE, isdict |-> TRUE, members |-> <<>>, val |-> JNull]
                 ELSE failed
            ELSE Object(ParseMembers(inner, <<>>))
        Value(t) ==
            IF t = <<>> THEN failed
            ELSE IF Head(t) = "{" THEN Braced(LStrip(Tail(t)))
            ELSE Scalar(ParseScalar(t))
    IN  Value(LStrip(text))

\* key in obj
HasKey(members, key) == \E i \in 1..Len(members) : members[i].key = key

\* obj.get(key) of a key that is present: the last member with that key
GetKey(members, key) ==
    LET Last(is) == members[CHOOSE i \in is : \A j \in is : j <= i].val
    IN  Last({i \in 1..Len(members) : members[i].key = key})

\* obj.get(key): None for a key that is missing
Get(members, key) == IF HasKey(members, key) THEN GetKey(members, key) ELSE JNull

AnswerKey == <<"a", "n", "s", "w", "e", "r">>

ConfidenceKey == <<"c", "o", "n", "f", "i", "d", "e", "n", "c", "e">>

ConfidenceScoreKey == <<"c", "o", "n", "f", "i", "d", "e", "n", "c", "e", "_", "s", "c", "o", "r", "e">>

(***************************************************************************)
(* The parsing helpers of LLMChecker                                       *)
(***************************************************************************)
TrueWords == {<<"t", "r", "u", "e">>, <<"y", "e", "s">>, <<"j", "a">>}

FalseWords == {<<"f", "a", "l", "s", "e">>, <<"n", "o">>, <<"n", "e", "e">>}

\* Mutant: the Dutch words are not recognised.
CoerceAnswerBool_EnglishOnly(value) ==
    IF value.kind = "bool" THEN OptBool(value.b)
    ELSE IF value.kind = "string"
    THEN IF Lower(Strip(value.s)) \in {<<"t", "r", "u", "e">>, <<"y", "e", "s">>} THEN "True"
         ELSE IF Lower(Strip(value.s)) \in {<<"f", "a", "l", "s", "e">>, <<"n", "o">>} THEN "False"
         ELSE "None"
    ELSE "None"

\* _coerce_answer_bool(value)
CoerceAnswerBool(value) ==
    IF value.kind = "bool" THEN OptBool(value.b)
    ELSE IF value.kind = "string"
    THEN IF Lower(Strip(value.s)) \in TrueWords THEN "True"
         ELSE IF Lower(Strip(value.s)) \in FalseWords THEN "False"
         ELSE "None"
    ELSE "None"

\* Mutant: any "true" or "false" inside the text counts.
ContainsTrueFalse_AnySubstring(text) ==
    LET In(low) ==
            IF Contains(<<"t", "r", "u", "e">>, low) THEN "True"
            ELSE IF Contains(<<"f", "a", "l", "s", "e">>, low) THEN "False"
            ELSE "None"
    IN  In(Lower(Strip(text)))

\* _contains_true_false(text)
ContainsTrueFalse(text) ==
    LET In(low) ==
            IF \/ Contains(<<"\"", "a", "n", "s", "w", "e", "r", "\"", ":", " ", "t", "r", "u", "e">>, low)
               \/ Contains(<<"\n", "t", "r", "u", "e", "\n">>, low)
               \/ low = <<"t", "r", "u", "e">>
            THEN "True"
            ELSE IF \/ Contains(<<"\"", "a", "n", "s", "w", "e", "r", "\"", ":", " ", "f", "a", "l", "s", "e">>, low)
                    \/ Contains(<<"\n", "f", "a", "l", "s", "e", "\n">>, low)
                    \/ low = <<"f", "a", "l", "s", "e">>
            THEN "False"
            ELSE "None"
    IN  In(Lower(Strip(text)))

\* float(value): [ok, n]; a bool is an int, a str is parsed after strip()
FloatOf(value) ==
    LET failed == [ok |-> FALSE, n |-> 0]
        OfText(num) == IF num.ok /\ num.rest = <<>> THEN [ok |-> TRUE, n |-> num.val.n] ELSE failed
    IN  IF value.kind = "number" THEN [ok |-> TRUE, n |-> value.n]
        ELSE IF value.kind = "bool" THEN [ok |-> TRUE, n |-> IF value.b THEN Scale ELSE 0]
        ELSE IF value.kind = "string" THEN OfText(ParseNumber(Strip(value.s)))
        ELSE failed

Min(a, b) == IF a <= b THEN a ELSE b

Max(a, b) == IF a >= b THEN a ELSE b

\* Mutant: a percentage is not clamped after the division.
CoerceConfidence_NoClamp(value) ==
    LET Of(float) ==
            IF ~float.ok THEN NoConfidence
            ELSE <<IF float.n > Scale THEN float.n \div 100 ELSE float.n>>
    IN  IF value.kind = "null" THEN NoConfidence ELSE Of(FloatOf(value))

\* _coerce_confidence(value)
CoerceConfidence(value) ==
    LET Clamped(conf) == <<Max(0, Min(Scale, conf))>>
        Of(float) ==
            IF ~float.ok THEN NoConfidence
            ELSE Clamped(IF float.n > Scale /\ float.n <= 100 * Scale THEN float.n \div 100
                         ELSE float.n)
    IN  IF value.kind = "null" THEN NoConfidence ELSE Of(FloatOf(value))

\* Mutant: a text that is no JSON object is not looked at any further.
ParseAnswer_NoFallback(text) ==
    LET Read(obj) ==
            IF obj.ok /\ obj.isdict THEN CoerceAnswerBool(Get(obj.members, AnswerKey))
            ELSE "None"
    IN  Read(JsonLoads(text))

\* _parse_answer(text)
ParseAnswer(text) ==
    LET Fallback(embedded) ==
            IF embedded # "None" THEN embedded ELSE CoerceAnswerBool(JString(text))
        Read(obj) ==
            IF obj.ok /\ obj.isdict THEN CoerceAnswerBool(Get(obj.members, AnswerKey))
            ELSE Fallback(ContainsTrueFalse(text))
    IN  Read(JsonLoads(text))

\* _parse_structured(text): [ans, conf]
ParseStructured(text) ==
    LET Read(obj) ==
            IF obj.ok /\ obj.isdict
            THEN [ans |-> CoerceAnswerBool(Get(obj.members, AnswerKey)),
                  conf |-> CoerceConfidence(
                               IF HasKey(obj.members, ConfidenceKey)
                               THEN GetKey(obj.members, ConfidenceKey)
                               ELSE Get(obj.members, ConfidenceScoreKey))]
            ELSE [ans |-> ParseAnswer(text), conf |-> NoConfidence]
    IN  Read(JsonLoads(text))

(***************************************************************************)
(* The classify methods of LLMChecker, one call at a time.                 *)
(***************************************************************************)
Modes == {"structured", "structured_async", "boolean", "record_boolean", "record_structured",
          "record_to_label"}

\* (metadata_record or {}).get("title") or "", and a str argument as it is
FieldText(field) == IF field.present THEN field.text ELSE <<>>

\* What the method called hands back for the dict of
\* classify_title_abstract_structured: the dict itself, bool(answer_value or
\* False), or the metadata_labels record with _applicable
Returned(mode, structured) ==
    IF mode \in {"boolean", "record_boolean"}
    THEN [kind |-> "bool", answer_value |-> structured.answer_value, confidence_score |-> NoConfidence]
    ELSE IF mode = "record_to_label"
    THEN [kind |-> "label", answer_value |-> structured.answer_value,
          confidence_score |-> IF structured.answer_value THEN structured.confidence_score
                               ELSE NoConfidence]
    ELSE structured

\* Mutant: the question is not looked at.
MissingInput_IgnoresQuestion(question, title, abstract) == title = <<>> \/ abstract = <<>>

\* if not title or not abstract or not question
MissingInput(question, title, abstract) == title = <<>> \/ abstract = <<>> \/ question = <<>>

\* The call up to the backend call: the record helpers return at once for a
\* record without title or abstract; the checker returns the default result
\* when it is disabled or an argument is empty; otherwise _chat constructs
\* the ollama client and calls it.
ClassifyCall ==
    /\ ck_pc = "start"
    /\ LET title == FieldText(ck_title)
           abstract == FieldText(ck_abstract)
           early == \/ ck_mode \in {"record_boolean", "record_structured"}
                       /\ (title = <<>> \/ abstract = <<>>)
                    \/ ~ck_enabled
                    \/ MissingInput(ck_question, title, abstract)
       IN  IF early
           THEN /\ ck_pc' = "returned"
                /\ ck_result' = Returned(ck_mode, Verdict(FALSE, NoConfidence))
                /\ UNCHANGED ck_clients
           ELSE /\ ck_pc' = "chat"
                /\ ck_clients' = ck_clients + 1
                /\ UNCHANGED ck_result
    /\ UNCHANGED <<ck_enabled, ck_mode, ck_question, ck_title, ck_abstract, ck_chat, ck_content>>
    /\ UNCHANGED nonClassifyVars

\* Mutant: the classify methods have no except clause.
ClassifyCatches_Nothing == FALSE

\* except Exception as exc: in both classify methods (lines 197, 231)
ClassifyCatches == TRUE

\* client.chat(...) raises
BackendRaises ==
    /\ ck_pc = "chat"
    /\ ck_pc' = "returned"
    /\ ck_chat' = "raised"
    /\ ck_result' = IF ClassifyCatches THEN Returned(ck_mode, Verdict(FALSE, NoConfidence))
                    ELSE Raised
    /\ UNCHANGED <<ck_enabled, ck_mode, ck_question, ck_title, ck_abstract, ck_clients, ck_content>>
    /\ UNCHANGED nonClassifyVars

\* client.chat(...) returns a message with this content: _chat strips it,
\* _parse_structured reads it, an unknown answer becomes False
BackendResponds(content) ==
    /\ ck_pc = "chat"
    /\ ck_pc' = "returned"
    /\ ck_chat' = "responded"
    /\ ck_content' = content
    /\ LET Result(parsed) == Returned(ck_mode, Verdict(parsed.ans = "True", parsed.conf))
       IN  ck_result' = Result(ParseStructured(Strip(content)))
    /\ UNCHANGED <<ck_enabled, ck_mode, ck_question, ck_title, ck_abstract, ck_clients>>
    /\ UNCHANGED nonClassifyVars

(***************************************************************************)
(* The backend responses of the model, as the texts a backend would send.  *)
(***************************************************************************)
\* A decimal literal for n/Scale: the integer part, and four places when the
\* fraction is not zero
FormatNumber(n) ==
    LET mag == IF n < 0 THEN 0 - n ELSE n
        frac == mag % Scale
        places == SubSeq(<<"0", "0", "0">>, 1, 4 - Len(Digits(frac))) \o Digits(frac)
    IN  (IF n < 0 THEN <<"-">> ELSE <<>>) \o Digits(mag \div Scale)
        \o (IF frac = 0 THEN <<>> ELSE <<".">> \o places)

\* The confidences a structured response carries: below 0, in [0,1], in
\* (1,100], above 100 (as numbers of 1/Scale)
ConfidenceNumbers ==
    {0 - 3 * Scale, 0 - (Scale \div 2), 0, Scale \div 4, Scale \div 2, Scale,
     Scale + (Scale \div 100), 85 * Scale, 100 * Scale, 100 * Scale + (Scale \div 2), 250 * Scale}

\* An absent field.
Absent == <<>>

\* Other values of the confidence field: a numeric string, a word, null
OtherConfidenceLiterals == {<<"\"", "0", ".", "9", "\"">>, <<"\"", "h", "i", "g", "h", "\"">>, <<"n", "u", "l", "l">>}

ConfidenceLiterals == {FormatNumber(n) : n \in ConfidenceNumbers} \cup OtherConfidenceLiterals \cup {Absent}

\* Values of the answer field, as JSON text
BoolAnswerLiterals == {<<"t", "r", "u", "e">>, <<"f", "a", "l", "s", "e">>}

TrueStringLiterals == {<<"\"", "t", "r", "u", "e", "\"">>, <<"\"", "T", "R", "U", "E", "\"">>, <<"\"", "y", "e", "s", "\"">>, <<"\"", " ", "Y", "e", "s", " ", "\"">>}

FalseStringLiterals == {<<"\"", "f", "a", "l", "s", "e", "\"">>, <<"\"", "n", "o", "\"">>, <<"\"", "N", "o", "\"">>}

DutchTrueLiterals == {<<"\"", "j", "a", "\"">>}

DutchFalseLiterals == {<<"\"", "n", "e", "e", "\"">>}

UnknownAnswerLiterals == {<<"\"", "m", "a", "y", "b", "e", "\"">>, <<"1">>, <<"n", "u", "l", "l">>, Absent}

AnswerLiterals ==
    BoolAnswerLiterals \cup TrueStringLiterals \cup FalseStringLiterals \cup DutchTrueLiterals
    \cup DutchFalseLiterals \cup UnknownAnswerLiterals

\* {"answer": a, "confidence": c}, without the members that are absent
ObjectText(a, c) ==
    <<"{">>
    \o (IF a = Absent THEN <<>> ELSE <<"\"", "a", "n", "s", "w", "e", "r", "\"", ":", " ">> \o a)
    \o (IF a = Absent \/ c = Absent THEN <<>> ELSE <<",", " ">>)
    \o (IF c = Absent THEN <<>> ELSE <<"\"", "c", "o", "n", "f", "i", "d", "e", "n", "c", "e", "\"", ":", " ">> \o c)
    \o <<"}">>

ObjectTexts == {ObjectText(a, c) : a \in AnswerLiterals, c \in ConfidenceLiterals}

\* The grave accent, named: a string of the module cannot hold the character.
GraveAccent == "grave"

\* The same object inside a fenced code block: three grave accents and json,
\* a newline, the object, a newline, three grave accents
Fenced(body) ==
    <<GraveAccent, GraveAccent, GraveAccent, "j", "s", "o", "n", "\n">> \o body
    \o <<"\n", GraveAccent, GraveAccent, GraveAccent>>

FencedTexts == {Fenced(ObjectText(a, c)) : a \in BoolAnswerLiterals \cup TrueStringLiterals,
                                           c \in {FormatNumber(Scale \div 2), Absent}}

\* A bare word as the whole response
AffirmativeWords == {<<"y", "e", "s">>, <<"t", "r", "u", "e">>, <<"j", "a">>, <<"Y", "e", "s">>, <<" ", "T", "R", "U", "E", "\n">>}

NegativeWords == {<<"n", "o">>, <<"f", "a", "l", "s", "e">>, <<"n", "e", "e">>, <<"N", "O">>}

\* Text in which no answer can be read
GarbageTexts == {<<>>, <<"g", "a", "r", "b", "a", "g", "e">>, <<"Y", "e", "s", ".">>, <<"u", "n", "t", "r", "u", "e">>, <<"{", "\"", "a", "n", "s", "w", "e", "r", "\"", ":", " ", "t", "r", "u">>, <<"\"", "y", "e", "s", "\"">>, <<"1">>}

\* A structured object with the confidence under the key confidence_score
ScoreKeyTexts == {<<"{", "\"", "a", "n", "s", "w", "e", "r", "\"", ":", " ", "t", "r", "u", "e", ",", " ", "\"", "c", "o", "n", "f", "i", "d", "e", "n", "c", "e", "_", "s", "c", "o", "r", "e", "\"", ":", " ", "0", ".", "2", "5", "}">>}

Responses ==
    ObjectTexts \cup FencedTexts \cup AffirmativeWords \cup NegativeWords \cup GarbageTexts
    \cup ScoreKeyTexts

FieldValues ==
    {[present |-> FALSE, text |-> <<>>], [present |-> TRUE, text |-> <<>>],
     [present |-> TRUE, text |-> <<"T">>]}

ClassifyInit ==
    /\ MainTexIdle
    /\ ArxivIdle
    /\ QueueIdle
    /\ ExtractIdle
    /\ DownloadIdle
    /\ LabelingIdle
    /\ ck_enabled \in BOOLEAN
    /\ ck_mode \in Modes
    /\ ck_question \in {<<>>, <<"Q">>}
    /\ ck_title \in FieldValues
    /\ ck_abstract \in FieldValues
    /\ ck_pc = "start"
    /\ ck_clients = 0
    /\ ck_chat = "none"
    /\ ck_content = <<>>
    /\ ck_result = NoVerdict

ClassifyNext ==
    \/ ClassifyCall
    \/ BackendRaises
    \/ \E content \in Responses : BackendResponds(content)

SpecClassify == ClassifyInit /\ [][ClassifyNext]_vars

(***************************************************************************)
(* Claims about pop_next_labeling_job                                      *)
(***************************************************************************)
\* C1: when two callers run pop_next_labeling_job concurrently (SpecQueue),
\* they never both return the same pair: a pair is returned at most once
\* per insertion into the queue.
C1_NoDoubleDelivery == delivered <= 1

\* A step in which caller c returns from pop_next_labeling_job.
PopReturns(c) == pop_ret[c] = Running /\ pop_ret'[c] # Running

\* C2: with sequential callers (SpecQueueSeq), possibly interleaved with
\* enqueues, a pair is returned again only after it was re-inserted; a
\* successful pop removes exactly the returned pair, which was in the queue;
\* a pop on an empty queue returns none and changes nothing; and no other
\* statement of the pop changes the table.
C2_SequentialPop ==
    /\ [](delivered <= 1)
    /\ [][\A c \in Callers :
            /\ (PopReturns(c) /\ pop_ret'[c] \in Pairs) =>
                    /\ pop_ret'[c] \in labeling_queue
                    /\ labeling_queue' = labeling_queue \ {pop_ret'[c]}
            /\ (PopReturns(c) /\ pop_ret'[c] = NoRow) =>
                    /\ labeling_queue = {}
                    /\ labeling_queue' = labeling_queue
            /\ (pop_pc[c] = "select" /\ pop_pc'[c] # "select" /\ labeling_queue = {}) =>
                    pop_ret'[c] = NoRow
            /\ (pop_pc[c] # pop_pc'[c] /\ ~PopReturns(c)) =>
                    labeling_queue' = labeling_queue]_vars

\* Both callers have returned the watched pair, one after the other: it was
\* popped, re-inserted and popped again.
C2_Witness ==
    /\ pop_ret["c1"] = watched
    /\ pop_ret["c2"] = watched
    /\ delivered = 1
    /\ watched \notin labeling_queue

(***************************************************************************)
(* Claims about the archive extraction                                     *)
(***************************************************************************)
\* The place a member name resolves to lies outside the scratch directory.
ResolvesOutside(name) == ~IsPrefix(Abspath(ExtractedDir), Abspath(PathJoin(ExtractedDir, name)))

HasEscapingMember == \E i \in 1..Len(tar_members) : ResolvesOutside(tar_members[i])

\* C5: an archive with an entry that resolves outside the scratch directory
\* (nested ".." of any depth, or an absolute name) is rejected as a whole:
\* nothing of it is ever written; files are written only after every entry
\* passed the check; and no file is ever written outside the scratch directory.
C5_TraversalRejected ==
    /\ HasEscapingMember => (ex_pc \in {"check", "blocked"} /\ ex_written = {})
    /\ ex_pc = "blocked" => HasEscapingMember
    /\ ex_written # {} => (ex_pc \in {"extract", "extracted"} /\ ~HasEscapingMember)
    /\ \A w \in ex_written : IsPrefix(Abspath(ExtractedDir), w)

\* An archive whose first entry is harmless and whose second entry climbs out
\* through nested ".." components has been rejected, with nothing written.
C5_Witness ==
    /\ ex_pc = "blocked"
    /\ ex_i = 1
    /\ Len(tar_members) = 2
    /\ ~tar_members[2].abs
    /\ tar_members[2].parts = <<"e", "..", "..">>
    /\ ex_written = {}


(***************************************************************************)
(* Claims about the download run                                           *)
(***************************************************************************)
\* An item of the run is under way or has just ended.
ItemBegun == dl_pc \in {"loop", "fetching", "raised"} /\ dl_i >= 1

\* The number of strategies that apply to an id: the two of the previous
\* version only with a version suffix above 1.
ApplicableStrategies(aid) == IF VersionMark(aid) # 0 /\ ParseVersion(aid) > 1 THEN 4 ELSE 2

FailedOutcomes == {"fetch_failed", "blocked", "unreadable"}

\* C4: for an item without an existing archive the strategies are attempted
\* in the order 1 (source archive, exact version), 2 (PDF, exact version),
\* 3 (source archive, previous version), 4 (PDF, previous version); strategy
\* k+1 starts only after strategy k failed; nothing is attempted after the
\* first success; at most one strategy of the item is in flight; strategies 3
\* and 4 are never attempted for version 1 or less or without a version suffix.
C4_StrategyOrder ==
    ItemBegun =>
        LET n == Len(attempts)
            inflight == dl_pc = "fetching"
        IN  /\ \A k \in 1..n : attempts[k].strategy = k
            /\ \A k \in 1..n : k <= ApplicableStrategies(CurrentId)
            /\ inflight => dl_h = n + 1 /\ dl_h <= ApplicableStrategies(CurrentId)
            /\ \A k \in 1..n : k < n \/ inflight => attempts[k].outcome \in FailedOutcomes
            /\ \A k \in 1..n : attempts[k].outcome = "ok" => k = n /\ ~inflight /\ dl_outcome = "chain"
            /\ \A k \in 1..n :
                  attempts[k].target = IF k <= 2 THEN CurrentId
                                       ELSE SubSeq(CurrentId, 1, VersionMark(CurrentId))
                                            \o Digits(ParseVersion(CurrentId) - 1)
            /\ inflight => dl_target = IF dl_h <= 2 THEN CurrentId
                                       ELSE SubSeq(CurrentId, 1, VersionMark(CurrentId))
                                            \o Digits(ParseVersion(CurrentId) - 1)
            /\ dl_outcome = "exhausted" => n = ApplicableStrategies(CurrentId)
            /\ dl_outcome = "chain" => n >= 1 /\ attempts[n].outcome = "ok"

\* An item of version MaxVersion went through all four strategies, the
\* fourth succeeding.
C4_Witness ==
    /\ ItemBegun
    /\ ParseVersion(CurrentId) = MaxVersion
    /\ Len(attempts) = 4
    /\ \A k \in 1..3 : attempts[k].outcome \in FailedOutcomes
    /\ attempts[4].outcome = "ok"
    /\ dl_outcome = "chain"

C7_FailureNeverAborts ==
    /\ dl_pc # "raised"
    /\ ItemBegun =>
          /\ stats.attempted = dl_i
          /\ stats.completed + stats.failed = (IF dl_pc = "fetching" THEN dl_i - 1 ELSE dl_i)
          /\ (\E k \in 1..Len(attempts) : attempts[k].outcome = "fetch_failed")
                => \/ dl_pc = "fetching"
                   \/ dl_pc = "loop" /\ dl_outcome \in {"chain", "exhausted"}
          /\ dl_outcome = "exhausted" =>
                /\ dl_pc = "loop"
                /\ stats.failed >= 1
                /\ "FAILED" \notin dl_unstored => StatusOf(CurrentId) = "FAILED"
          /\ dl_pc = "loop" /\ dl_i < Len(pending_ids) => ENABLED BeginItem

\* The first item of a batch of two exhausted its strategies and was marked
\* FAILED, and the second item was fetched after it.
C7_Witness ==
    /\ dl_pc = "loop"
    /\ dl_i = 2
    /\ Len(pending_ids) = 2
    /\ StatusOf(pending_ids[1]) = "FAILED"
    /\ stats.failed = 1
    /\ stats.completed = 1
    /\ dl_outcome = "chain"

\* C8: an item whose archive is already on disk is completed without a
\* fetch (its status becomes COMPLETED when the update goes through), a fetch
\* is only ever in flight for an item that had no archive of its own on disk,
\* and no item a run has completed is claimed or fetched again.
C8_ReuseWithoutFetch ==
    /\ \A k \in 1..Len(pending_ids) : k >= dl_i /\ ~(k = dl_i /\ dl_pc = "loop")
          => pending_ids[k] \notin dl_completed
    /\ ItemBegun =>
          /\ dl_outcome = "reused" =>
                /\ attempts = <<>>
                /\ dl_pc = "loop"
                /\ "COMPLETED" \notin dl_unstored => StatusOf(CurrentId) = "COMPLETED"
          /\ dl_pc = "fetching" /\ dl_h = 1 => TarballName(CurrentId) \notin tarball_dir
          /\ dl_pc = "loop" /\ attempts = <<>> => dl_outcome = "reused"

\* A later run reuses the archive on disk for its item, after an earlier run
\* completed another item.
C8_Witness ==
    /\ ItemBegun
    /\ dl_outcome = "reused"
    /\ attempts = <<>>
    /\ StatusOf(CurrentId) = "COMPLETED"
    /\ \E aid \in dl_completed : aid # CurrentId /\ \A k \in 1..Len(pending_ids) : pending_ids[k] # aid



(***************************************************************************)
(* Claims about the labeling run                                           *)
(***************************************************************************)
\* The jobs whose backend call has been made and has not returned.
CallsInFlight == {j \in JobNumbers : jobs[j].calls > 0 /\ jobs[j].result.kind = "none"}

Affirmative(job) == job.result.kind = "dict" /\ job.result.answer_value = TRUE

\* C9: upsert_metadata_label is called for a job if and only if the verdict
\* of its classification has answer true, with the job's metadata id, the
\* label id of its question and the confidence of the verdict; a negative
\* verdict, a skipped job and a job counted as error cause no write, and the
\* label store holds nothing but the rows so written.
C9_UpsertIffAffirmative ==
    /\ \A j \in JobNumbers :
          /\ jobs[j].upsert # {} <=> Affirmative(jobs[j])
          /\ jobs[j].upsert \subseteq {[metadata_id |-> jobs[j].metadata_id,
                                        label_id |-> LabelOfQuestion(jobs[j].question_id),
                                        confidence_score |-> jobs[j].result.confidence_score]}
          /\ jobs[j].stage = "done" => jobs[j].upsert \subseteq metadata_labels
    /\ \A row \in metadata_labels :
          \E j \in JobNumbers : row \in jobs[j].upsert /\ jobs[j].stage = "done"
    /\ lab_stats.labeled = Cardinality({j \in JobNumbers : jobs[j].stage = "done" /\ jobs[j].upsert # {}})

\* A run has returned in which one job got an affirmative verdict and its
\* row, one a negative verdict and one an error: the store holds one row.
C9_Witness ==
    /\ lab_pc = "returned"
    /\ \E a, b, c \in JobNumbers :
          /\ Affirmative(jobs[a])
          /\ jobs[a].result.confidence_score = <<90>>
          /\ jobs[a].upsert \subseteq metadata_labels
          /\ jobs[b].result = Verdict(FALSE, NoConfidence)
          /\ jobs[c].result.kind = "raised"
    /\ Cardinality(metadata_labels) = 1

\* The lookups of a job's question or of its title and abstract give nothing.
Unresolved(job) == job.question_id \notin questions \/ texts[job.metadata_id] = "missing"

\* The _enrich task of the job has ended and its lookups returned.
LookedUp(job) == job.stage \notin {"enriching", "enrich_failed"}

\* C10: a popped job whose question or text cannot be resolved is dropped:
\* skipped_missing counts it exactly once, no backend call is made for it, it
\* has no classification result (so neither processed nor errors counts it)
\* and no label is written for it.
C10_UnresolvedJobDropped ==
    /\ \A j \in JobNumbers :
          Unresolved(jobs[j]) /\ LookedUp(jobs[j]) =>
              /\ jobs[j].stage = "skipped"
              /\ jobs[j].calls = 0
              /\ jobs[j].result = NoVerdict
              /\ jobs[j].upsert = {}
    /\ lab_stats.skipped_missing =
          Cardinality({j \in JobNumbers : Unresolved(jobs[j]) /\ LookedUp(jobs[j])})
    /\ lab_stats.processed = Cardinality({j \in JobNumbers : jobs[j].result.kind = "dict"})
    /\ lab_stats.errors = Cardinality({j \in JobNumbers : jobs[j].result.kind = "raised"})
    /\ \A row \in metadata_labels :
          \A j \in JobNumbers :
              Unresolved(jobs[j]) => ~(row.metadata_id = jobs[j].metadata_id
                                       /\ row.label_id = LabelOfQuestion(jobs[j].question_id))

\* A run has returned in which one job was dropped for its question, one for
\* its text, and a third was classified.
C10_Witness ==
    /\ lab_pc = "returned"
    /\ \E a, b \in JobNumbers :
          /\ jobs[a].question_id \notin questions
          /\ texts[jobs[a].metadata_id] # "missing"
          /\ jobs[b].question_id \in questions
          /\ texts[jobs[b].metadata_id] = "missing"
          /\ jobs[a].stage = "skipped"
          /\ jobs[b].stage = "skipped"
    /\ lab_stats.skipped_missing = 2
    /\ lab_stats.processed = 1



(***************************************************************************)
(* Claims about LLMChecker (SpecClassify)                                  *)
(***************************************************************************)
\* The default result {answer_value: False, confidence_score: None}, as the
\* method called hands it back.
NegativeUnknown == Returned(ck_mode, Verdict(FALSE, NoConfidence))

\* C11: whenever the backend call throws, the classify method called (the
\* synchronous one, the asynchronous one, or a helper built on them) does
\* not raise: it returns the verdict answer false, confidence unknown.
C11_BackendFailureIsNegative ==
    ck_chat = "raised" => ck_result # Raised /\ ck_result = NegativeUnknown

\* The backend call of the synchronous and of the asynchronous classify has
\* thrown and the call has returned.
C11_Witness ==
    /\ ck_chat = "raised"
    /\ ck_pc = "returned"
    /\ ck_mode \in {"structured", "structured_async"}
    /\ ck_result = Verdict(FALSE, NoConfidence)


\* An argument of the call is empty: the question, or the title or the
\* abstract (of the record, for the record helpers).
EmptyInput == ck_question = <<>> \/ FieldText(ck_title) = <<>> \/ FieldText(ck_abstract) = <<>>

\* C12: when question, title or abstract is empty (for the metadata-record
\* helpers: when the record lacks a title or an abstract), the call returns
\* a negative verdict with unknown confidence, and no backend client is
\* constructed or called.
C12_EmptyInputNoBackend ==
    EmptyInput =>
        /\ ck_clients = 0
        /\ ck_chat = "none"
        /\ ck_pc \in {"start", "returned"}
        /\ ck_pc = "returned" => ck_result = NegativeUnknown

\* An enabled checker has returned from a call with an empty question and a
\* title and an abstract.
C12_Witness ==
    /\ ck_enabled
    /\ ck_question = <<>>
    /\ FieldText(ck_title) # <<>>
    /\ FieldText(ck_abstract) # <<>>
    /\ ck_pc = "returned"
    /\ ck_clients = 0
    /\ ck_result = NegativeUnknown


\* Responses that are no JSON object: a bare word, or text without an answer.
NonObjectTexts == AffirmativeWords \cup NegativeWords \cup GarbageTexts

\* JSON objects whose answer field is missing or not boolean-like.
UnknownAnswerObjects == {ObjectText(a, c) : a \in UnknownAnswerLiterals, c \in ConfidenceLiterals}

\* The confidence fields from which no number can be read.
NonNumericLiterals == {<<"\"", "h", "i", "g", "h", "\"">>, <<"n", "u", "l", "l">>, Absent}

\* C13 as stated: every response that is not a structured object with a
\* recognisable boolean-like answer gives answer false with unknown
\* confidence.
C13_OnlyObjectsAnswer ==
    ck_chat = "responded" /\ ck_content \in NonObjectTexts \cup UnknownAnswerObjects
        => ck_result = NegativeUnknown

\* C13 (amended): a response in which no answer can be read -- text that is
\* no JSON object and is neither a bare boolean word nor holds an embedded
\* "answer": true|false or a line true|false, or an object whose answer
\* field is missing or not boolean-like -- never raises and gives answer
\* false; the confidence is unknown unless the object carries a number.
C13_UnreadableIsNegative ==
    ck_chat = "responded" =>
        /\ ck_content \in GarbageTexts => ck_result = NegativeUnknown
        /\ \A a \in UnknownAnswerLiterals, c \in ConfidenceLiterals :
               ck_content = ObjectText(a, c) =>
                   /\ ck_result.kind # "raised"
                   /\ ck_result.answer_value = FALSE
                   /\ c \in NonNumericLiterals => ck_result = NegativeUnknown

\* The backend sent the text garbage and the structured classify returned.
C13_Witness ==
    /\ ck_chat = "responded"
    /\ ck_pc = "returned"
    /\ ck_mode = "structured"
    /\ ck_content = <<"g", "a", "r", "b", "a", "g", "e">>
    /\ ck_result = Verdict(FALSE, NoConfidence)


\* The verdict of classify for a response text, as the method called hands
\* it back.
VerdictFor(text) ==
    LET Result(parsed) == Returned(ck_mode, Verdict(parsed.ans = "True", parsed.conf))
    IN  Result(ParseStructured(Strip(text)))

\* C14: a response that is a valid structured object inside a fenced-code
\* wrapper gives the same verdict, answer and confidence both, as the same
\* object without the wrapper.
C14_FenceIsTransparent ==
    ck_chat = "responded" =>
        \A a \in BoolAnswerLiterals \cup TrueStringLiterals,
           c \in {FormatNumber(Scale \div 2), Absent} :
            ck_content = Fenced(ObjectText(a, c)) => ck_result = VerdictFor(ObjectText(a, c))


\* The methods that hand back the coerced confidence whatever the answer is.
StructuredModes == {"structured", "structured_async", "record_structured"}

\* The mapping of the claim, on numbers of 1/Scale.
ExpectedConfidence(n) ==
    IF n < 0 THEN 0
    ELSE IF n <= Scale THEN n
    ELSE IF n <= 100 * Scale THEN n \div 100
    ELSE Scale

\* C15: a numeric confidence in [0,1] is returned unchanged, one in (1,100]
\* is divided by 100, one above 100 becomes 1, a negative one becomes 0, a
\* non-numeric or absent one becomes unknown; so the confidence of every
\* verdict that classify returns is unknown or within [0,1].
C15_ConfidenceCoercion ==
    /\ ck_result.confidence_score = NoConfidence
       \/ /\ Len(ck_result.confidence_score) = 1
          /\ ck_result.confidence_score[1] \in 0..Scale
    /\ ck_chat = "responded" /\ ck_mode \in StructuredModes =>
           \A a \in AnswerLiterals :
               /\ \A n \in ConfidenceNumbers :
                      ck_content = ObjectText(a, FormatNumber(n)) =>
                          ck_result.confidence_score = <<ExpectedConfidence(n)>>
               /\ \A c \in NonNumericLiterals :
                      ck_content = ObjectText(a, c) => ck_result.confidence_score = NoConfidence

\* The backend sent {"answer": true, "confidence": 85} and the structured
\* classify returned the confidence 0.85.
C15_Witness ==
    /\ ck_chat = "responded"
    /\ ck_mode = "structured"
    /\ ck_content = ObjectText(<<"t", "r", "u", "e">>, <<"8", "5">>)
    /\ ck_result = Verdict(TRUE, <<85 * (Scale \div 100)>>)


\* The answer fields of the claim that are neither true nor false: a number,
\* null, a missing field, another string (among them the Dutch words).
OtherAnswerLiterals == UnknownAnswerLiterals \cup DutchTrueLiterals \cup DutchFalseLiterals

\* C16 as stated: in a structured response the booleans and the strings
\* "true"/"yes" and "false"/"no" (any case, whitespace ignored) are read as
\* true and false, and every other shape -- every other string among them --
\* is unknown, reported as false.
C16_OnlyEnglishWords ==
    ck_chat = "responded" =>
        \A c \in ConfidenceLiterals :
            /\ \A a \in {<<"t", "r", "u", "e">>} \cup TrueStringLiterals :
                   ck_content = ObjectText(a, c) => ck_result.answer_value = TRUE
            /\ \A a \in {<<"f", "a", "l", "s", "e">>} \cup FalseStringLiterals \cup OtherAnswerLiterals :
                   ck_content = ObjectText(a, c) => ck_result.answer_value = FALSE

\* C16 (amended): as stated, with the strings "ja" read as true and "nee"
\* as false.
C16_AnswerCoercion ==
    ck_chat = "responded" =>
        \A c \in ConfidenceLiterals :
            /\ \A a \in {<<"t", "r", "u", "e">>} \cup TrueStringLiterals \cup DutchTrueLiterals :
                   ck_content = ObjectText(a, c) => ck_result.answer_value = TRUE
            /\ \A a \in {<<"f", "a", "l", "s", "e">>} \cup FalseStringLiterals
                        \cup DutchFalseLiterals \cup UnknownAnswerLiterals :
                   ck_content = ObjectText(a, c) => ck_result.answer_value = FALSE

\* The backend sent {"answer": " Yes "} and classify returned answer true.
C16_Witness ==
    /\ ck_chat = "responded"
    /\ ck_pc = "returned"
    /\ ck_content = ObjectText(<<"\"", " ", "Y", "e", "s", " ", "\"">>, Absent)
    /\ ck_result.answer_value = TRUE


\* The call reached the backend: the checker is enabled and question, title
\* and abstract are not empty.
BackendAnswered == ck_chat = "responded"

\* C17: when the whole response is a bare boolean-like word instead of a
\* structured object (for example yes or true), classify with a non-empty
\* question, title and abstract returns answer true for an affirmative word
\* and answer false for a negative word.
C17_BareWordAnswer ==
    BackendAnswered =>
        /\ ck_content \in AffirmativeWords => ck_result.answer_value = TRUE
        /\ ck_content \in NegativeWords => ck_result.answer_value = FALSE
        /\ ck_content \in AffirmativeWords \cup NegativeWords =>
               ck_result.kind # "raised" /\ ~EmptyInput

\* The backend sent the bare text yes (the response of
\* test_classify_fallback_yes) and classify_title_abstract_boolean returned
\* True.
C17_Witness ==
    /\ ck_chat = "responded"
    /\ ck_mode = "boolean"
    /\ ck_content = <<"y", "e", "s">>
    /\ ck_result = [kind |-> "bool", answer_value |-> TRUE, confidence_score |-> NoConfidence]


(***************************************************************************)
(* Claims about the failures and the pops of a labeling run (SpecLabeling) *)
(***************************************************************************)
\* C18: no failure of one job makes the labeling run raise: with the client
\* built, a run in which a lookup of the store, a backend call or a label
\* upsert fails for a job never ends with an exception.
C18_PerJobFailureNeverRaises == lab_client = "built" => lab_pc # "raised"


\* C19: if the classification backend client cannot be constructed, the run
\* fails as a whole before any job is claimed: it raises, pops no job from
\* the labeling queue, writes no label, and leaves the queue as it was.
C19_ConstructionFailureIsFatal ==
    lab_client = "failed" =>
        /\ lab_pc = "raised"
        /\ pop_calls = 0
        /\ jobs = <<>>
        /\ labeling_queue = queue_at_start
        /\ metadata_labels = {}

\* A run called on a queue with jobs has failed to build its client.
C19_Witness ==
    /\ lab_client = "failed"
    /\ lab_pc = "raised"
    /\ queue_at_start # {}
    /\ labeling_queue = queue_at_start


\* The pairs the run has taken from the queue.
PoppedPairs == {<<jobs[j].metadata_id, jobs[j].question_id>> : j \in JobNumbers}

\* fetch_jobs_from_queue has returned.
FetchDone == lab_client = "built" /\ lab_pc \in {"running", "returned", "raised"}

\* C20: a run with parameter max_jobs calls pop_next_labeling_job at most
\* max_jobs times and not again after a call that returned none, so it
\* removes at most max_jobs jobs from the queue: exactly
\* min(max_jobs, queue size), no other caller touching the queue.
C20_PopsBounded ==
    lab_pc # "idle" =>
        /\ pop_calls <= lab_limit
        /\ pop_calls = Len(jobs) + (IF pop_none THEN 1 ELSE 0)
        /\ pop_none => lab_pc # "popping"
        /\ Cardinality(PoppedPairs) = Len(jobs)
        /\ PoppedPairs \subseteq queue_at_start
        /\ labeling_queue = queue_at_start \ PoppedPairs
        /\ FetchDone => Len(jobs) = Min(lab_limit, Cardinality(queue_at_start))

\* A run with max_jobs 3 on a queue of one job has returned: it called
\* pop_next_labeling_job twice, the second call returning none.
C20_Witness ==
    /\ lab_pc = "returned"
    /\ lab_limit = 3
    /\ Cardinality(queue_at_start) = 1
    /\ pop_none
    /\ pop_calls = 2
    /\ labeling_queue = {}


(***************************************************************************)
(* Claims about the counters of a labeling run (SpecLabeling)              *)
(***************************************************************************)
\* The jobs of the run that satisfy a condition, counted.
JobsWith(Cond(_)) == Cardinality({j \in JobNumbers : Cond(jobs[j])})

GaveVerdict(job) == job.result.kind = "dict"

ClassifierRaised(job) == job.result.kind = "raised"

WasSkipped(job) == job.stage = "skipped"

UpsertPerformed(job) == job.stage = "done" /\ job.upsert # {}

\* C21: each counter is, whatever the order in which the tasks end, the
\* number of jobs that took that way: processed the jobs whose classification
\* gave a verdict, errors the jobs whose classification raised,
\* skipped_missing the jobs dropped by _enrich, labeled the affirmative
\* verdicts whose upsert was performed; labeled <= processed; and when the run
\* returns every popped job is counted exactly once:
\* popped = processed + skipped_missing + errors.
C21_CountersAccountForJobs ==
    /\ lab_stats.processed = JobsWith(GaveVerdict)
    /\ lab_stats.errors = JobsWith(ClassifierRaised)
    /\ lab_stats.skipped_missing = JobsWith(WasSkipped)
    /\ lab_stats.labeled = JobsWith(UpsertPerformed)
    /\ \A j \in JobNumbers : UpsertPerformed(jobs[j]) => jobs[j].result.answer_value
    /\ lab_stats.labeled <= lab_stats.processed
    /\ lab_pc = "returned" =>
          Len(jobs) = lab_stats.processed + lab_stats.skipped_missing + lab_stats.errors

\* A run of three popped jobs has returned: one job was skipped, the
\* classification of one raised, and one got an affirmative verdict that was
\* written.
C21_Witness ==
    /\ lab_pc = "returned"
    /\ Len(jobs) = 3
    /\ lab_stats = [processed |-> 1, labeled |-> 1, skipped_missing |-> 1, errors |-> 1]
    /\ \E j \in JobNumbers : WasSkipped(jobs[j])
    /\ \E j \in JobNumbers : ClassifierRaised(jobs[j])
    /\ \E j \in JobNumbers : UpsertPerformed(jobs[j])


(***************************************************************************)
(* Claims about metadata_labels (SpecLabels)                               *)
(***************************************************************************)
RowsOfKey(key) == {r \in metadata_labels : r.metadata_id = key[1] /\ r.label_id = key[2]}

\* C22: after any sequence of upsert_metadata_label calls the table holds at
\* most one row per (metadata_id, label_id); a key that was upserted has
\* exactly one row, with the confidence passed to the most recent upsert of
\* that key (upserts of other keys since then left it alone); a key never
\* upserted has none.
C22_OneRowLatestConfidence ==
    /\ \A r \in metadata_labels : <<r.metadata_id, r.label_id>> \in LabelKeys
    /\ \A key \in LabelKeys :
          /\ Cardinality(RowsOfKey(key)) <= 1
          /\ {r.confidence_score : r \in RowsOfKey(key)}
                = {u.confidence_score : u \in last_upsert[key]}

\* One key was upserted more than once, last with the confidence 0.50, a
\* second key was upserted once without a confidence, and the table holds
\* these two rows.
C22_Witness ==
    /\ last_upsert[<<1, LabelOfQuestion(1)>>] = {[confidence_score |-> <<50>>, repeated |-> TRUE]}
    /\ last_upsert[<<2, LabelOfQuestion(2)>>] = {[confidence_score |-> NoConfidence, repeated |-> FALSE]}
    /\ Cardinality(metadata_labels) = 2


(***************************************************************************)
(* Claims about the statuses of download jobs (SpecDownloads)              *)
(***************************************************************************)
\* The set_download_status calls the run made for an id, and those of them
\* that were committed.
WritesOf(aid) ==
    LET ForId(w) == w.arxiv_id = aid
    IN  SelectSeq(dl_writes, ForId)

CommittedWritesOf(aid) ==
    LET Committed(w) == w.arxiv_id = aid /\ w.stored
    IN  SelectSeq(dl_writes, Committed)

\* The loop is through with the k-th item of the batch.
ItemEnded(k) == k < dl_i \/ (k = dl_i /\ dl_pc = "loop")

\* C23: during a run each claimed item stays PENDING, with no status call,
\* until the loop is through with it; then its status was set at most once
\* (never to both COMPLETED and FAILED), and, when its status calls went
\* through, exactly once: to COMPLETED after a reused archive or a strategy
\* that succeeded, to FAILED otherwise; so when the loop is through with the
\* last item no item whose updates went through is still PENDING.
C23_LeavesPendingOnce ==
    dl_pc \in {"loop", "fetching"} =>
        \A k \in 1..Len(pending_ids) :
            LET aid == pending_ids[k]
                calls == WritesOf(aid)
                done == CommittedWritesOf(aid)
            IN  /\ Len(done) <= 1
                /\ ~ItemEnded(k) => calls = <<>> /\ StatusOf(aid) = "PENDING"
                /\ ItemEnded(k) =>
                      /\ calls # <<>>
                      /\ StatusOf(aid) = IF done = <<>> THEN "PENDING" ELSE done[1].status
                      /\ (\A c \in 1..Len(calls) : calls[c].stored) =>
                            /\ Len(done) = 1
                            /\ StatusOf(aid) \in {"COMPLETED", "FAILED"}
                            /\ k = dl_i =>
                                  StatusOf(aid) = IF dl_outcome \in {"reused", "chain"}
                                                  THEN "COMPLETED" ELSE "FAILED"

\* The loop is through with a batch of two: the first item was completed
\* without an archive of its own on disk (by a fetch of a PDF), the second
\* exhausted its strategies, each with one committed status call, and neither
\* is PENDING.
C23_Witness ==
    /\ dl_pc = "loop"
    /\ Len(pending_ids) = 2
    /\ dl_i = 2
    /\ dl_outcome = "exhausted"
    /\ dl_writes = <<StatusCall(pending_ids[1], "COMPLETED", TRUE),
                     StatusCall(pending_ids[2], "FAILED", TRUE)>>
    /\ StatusOf(pending_ids[1]) = "COMPLETED"
    /\ StatusOf(pending_ids[2]) = "FAILED"
    /\ ~ExistingTarball(pending_ids[1])


TerminalStatuses == {"COMPLETED", "FAILED"}

\* What a step does to terminal jobs and to the ids a run takes up.
TerminalJobsStay ==
    /\ \A aid \in QueuedIds :
          StatusOf(aid) \in TerminalStatuses => StatusOf(aid)' = StatusOf(aid)
    /\ (pending_ids' # pending_ids /\ pending_ids' # <<>>) =>
          \A k \in 1..Len(pending_ids') : StatusOf(pending_ids'[k]) = "PENDING"
    /\ dl_i' = dl_i + 1 => StatusOf(pending_ids[dl_i']) = "PENDING"
    /\ dl_reprepared' # dl_reprepared => download_queue' = download_queue

\* C24: a job that is COMPLETED or FAILED keeps that status in every step,
\* the steps of prepare_paper_download run again for its id included; the ids
\* a run claims are PENDING when it claims them, and an item is PENDING when
\* the loop takes it up.
C24_TerminalNeverRetried == [][TerminalJobsStay]_vars

\* Preparation was run again for a COMPLETED job and for a FAILED job, and
\* both still have their status.
C24_Witness ==
    /\ dl_pc = "idle"
    /\ \E a, b \in dl_reprepared : StatusOf(a) = "COMPLETED" /\ StatusOf(b) = "FAILED"


\* C25: the batch a run claimed holds no id twice, so the item the loop is
\* working on was not attempted earlier in the run, and (the loop taking one
\* item at a time) no two attempts of one id are under way together.
C25_BatchHasNoDuplicates ==
    /\ \A i, j \in 1..Len(pending_ids) : i # j => pending_ids[i] # pending_ids[j]
    /\ ItemBegun => \A k \in 1..(dl_i - 1) : pending_ids[k] # CurrentId
    /\ ItemBegun => stats.attempted = Cardinality({pending_ids[k] : k \in 1..dl_i})

\* The second item of a claimed batch of two is being fetched, the first
\* having been attempted before it.
C25_Witness ==
    /\ dl_pc = "fetching"
    /\ Len(pending_ids) = 2
    /\ dl_i = 2
    /\ stats.attempted = 2
    /\ WritesOf(pending_ids[1]) # <<>>
    /\ WritesOf(pending_ids[2]) = <<>>


\* The rows of download_queue that are PENDING, oldest first.
PendingRows ==
    LET IsPending(row) == row.download_status = "PENDING"
    IN  SelectSeq(download_queue, IsPending)

\* The step in which a run calls get_pending_downloads(requested).
ClaimStep == dl_pc \in {"idle", "raised"} /\ dl_pc' = "loop"

\* What the claim of a run gives and leaves.
ClaimIsARead ==
    ClaimStep =>
        /\ Len(pending_ids') <= stats'.requested
        /\ \A k \in 1..Len(pending_ids') : StatusOf(pending_ids'[k]) = "PENDING"
        /\ pending_ids' = [k \in 1..Min(stats'.requested, Len(PendingRows)) |-> PendingRows[k].arxiv_id]
        /\ download_queue' = download_queue

\* C30: get_pending_downloads(n) returns at most n ids, each of a job that is
\* PENDING at the call, the oldest pending jobs in the order of their
\* creation, and it leaves every row of download_queue as it was: no status
\* and no updated_at is changed by the claim.
C30_ClaimChangesNothing == [][ClaimIsARead]_vars

\* A run called with limit 1 has claimed the older of two pending jobs and
\* left the newer one, and both rows are as they were inserted.
C30_Witness ==
    /\ dl_pc = "loop"
    /\ dl_i = 0
    /\ stats.requested = 1
    /\ Len(PendingRows) = 2
    /\ pending_ids = <<download_queue[1].arxiv_id>>
    /\ \A k \in 1..2 : download_queue[k] = NewDownloadJob(download_queue[k].arxiv_id)


\* The id of the version before that of a versioned id, spelled out.
VersionBefore(aid) ==
    SubSeq(aid, 1, VersionMark(aid)) \o Digits(ParseVersion(aid) - 1)

\* download_status of the job of an id in a table, "ABSENT" without one.
StatusIn(rows, aid) ==
    LET ks == {k \in 1..Len(rows) : rows[k].arxiv_id = aid}
    IN  IF ks = {} THEN "ABSENT" ELSE rows[CHOOSE k \in ks : TRUE].download_status

\* A previous-version handler (3 or 4) is fetching.
PrevFetching == dl_pc = "fetching" /\ dl_h \in {3, 4}

\* What the previous-version handlers fetch: version n-1 of the base of the
\* item, for an item of version n > 1; and every fetch of the item asked for
\* version n or n-1.
PrevTargetsOnly ==
    /\ PrevFetching =>
          /\ VersionMark(CurrentId) # 0
          /\ ParseVersion(CurrentId) > 1
          /\ dl_target = VersionBefore(CurrentId)
          /\ ParseVersion(dl_target) = ParseVersion(CurrentId) - 1
    /\ ItemBegun =>
          \A k \in 1..Len(attempts) :
              /\ attempts[k].strategy <= 2 => attempts[k].target = CurrentId
              /\ attempts[k].strategy >= 3 => attempts[k].target = VersionBefore(CurrentId)

\* A previous-version handler succeeds: the status calls of the step are for
\* the item, the first of them COMPLETED, and every other row of
\* download_queue, the one of version n-1 if it is there, is left as it was.
PrevSuccessCompletesItem ==
    (PrevFetching /\ dl_outcome' = "chain") =>
        /\ Len(dl_writes') > Len(dl_writes)
        /\ dl_writes'[Len(dl_writes) + 1] \in
              {StatusCall(CurrentId, "COMPLETED", stored) : stored \in BOOLEAN}
        /\ \A k \in (Len(dl_writes) + 1)..Len(dl_writes') : dl_writes'[k].arxiv_id = CurrentId
        /\ dl_writes'[Len(dl_writes) + 1].stored =>
              StatusIn(download_queue', CurrentId) = "COMPLETED"
        /\ Len(download_queue') = Len(download_queue)
        /\ \A k \in 1..Len(download_queue) :
              download_queue[k].arxiv_id # CurrentId => download_queue'[k] = download_queue[k]
        /\ StatusIn(download_queue', dl_target) = StatusOf(dl_target)

HasTexExtension(fname) ==
    /\ Len(fname) >= 4
    /\ fname[Len(fname) - 3] = "."
    /\ fname[Len(fname) - 2] \in {"t", "T"}
    /\ fname[Len(fname) - 1] \in {"e", "E"}
    /\ fname[Len(fname)] \in {"x", "X"}

\* An archive that tarfile opens, that passes the path check, and that holds
\* no .tex file.
ExtractsWithoutTex(archive) ==
    /\ archive.readable
    /\ \A i \in 1..Len(archive.members) : ~ResolvesOutside(archive.members[i])
    /\ \A i \in 1..Len(archive.files) : ~HasTexExtension(archive.files[i].name)

\* C27: when strategy 1 fetched an archive that extracts and holds no .tex
\* file, the strategy succeeded with nothing copied: it is the only attempt of
\* the item, the chain returned True, the status call that follows is
\* COMPLETED, and the item is COMPLETED (not FAILED) when that call went through.
C27_NoTexIsStillSuccess ==
    (ItemBegun /\ attempts # <<>>) =>
        ((\E a \in attempts[1].fetched : ExtractsWithoutTex(a)) =>
            /\ attempts[1].strategy = 1
            /\ attempts[1].outcome = "ok"
            /\ attempts[1].main_tex = {}
            /\ Len(attempts) = 1
            /\ dl_pc = "loop"
            /\ dl_outcome = "chain"
            /\ WritesOf(CurrentId) # <<>>
            /\ WritesOf(CurrentId)[1].status = "COMPLETED"
            /\ WritesOf(CurrentId)[1].stored => StatusOf(CurrentId) = "COMPLETED")

\* The archive of an item held one file, not a .tex file: strategy 1 was its
\* only attempt, nothing was copied and the item is COMPLETED.
C27_Witness ==
    /\ ItemBegun
    /\ Len(attempts) = 1
    /\ attempts[1].strategy = 1
    /\ attempts[1].fetched = {NoTexArchive}
    /\ attempts[1].main_tex = {}
    /\ StatusOf(CurrentId) = "COMPLETED"
    /\ dl_writes[Len(dl_writes)] = StatusCall(CurrentId, "COMPLETED", TRUE)


(***************************************************************************)
(* Claims about _extract_and_copy_main_tex (SpecMainTex)                   *)
(***************************************************************************)
\* The call has ended: it returned, or an exception left it.
MainTexEnded == mt_aid # NoId /\ mt_pc \in {"returned", "raised"}

\* C26: after _extract_and_copy_main_tex has ended for an archive, whatever
\* the outcome (main .tex copied, no .tex found, archive rejected for path
\* traversal, archive unreadable), the scratch directory of the item does not
\* exist and the archive is still at tarball_path.  A removal the file system
\* refused is left aside: the statement is about the calls whose rmtree, if
\* made, went through.
C26_ScratchRemovedWhateverTheOutcome ==
    (MainTexEnded /\ mt_rmtree # "failed") => (~extracted_dir.exists /\ tarball_on_disk)

\* The places in the walk of the files with the extension .tex that have a size.
SizedTexFiles(files) ==
    {i \in 1..Len(files) : HasTexExtension(files[i].name) /\ files[i].stat_ok}

\* C28: once the copy step of an extracted archive is over, every file in
\* data/tex is at data/tex/<aid>.tex and is a copy of a file of the archive
\* with the extension .tex (in any case) whose size no other such file, at
\* any depth, exceeds; there is one copy when the archive holds such a file,
\* and none when the archive holds no file with that extension.
C28_LargestTexIsCopied ==
    (mt_aid # NoId /\ mt_pc \in {"cleanup", "returned"}) =>
        LET files == mt_archive.files
        IN  /\ \A f \in tex_out_dir :
                  /\ f.dest = <<"data", "tex", mt_aid \o <<".", "t", "e", "x">>>>
                  /\ \E i \in SizedTexFiles(files) :
                        /\ f.source = files[i]
                        /\ \A j \in SizedTexFiles(files) : files[j].size <= files[i].size
            /\ SizedTexFiles(files) # {} => Cardinality(tex_out_dir) = 1
            /\ (\A i \in 1..Len(files) : ~HasTexExtension(files[i].name)) => tex_out_dir = {}

\* The archive held a.tex of 0 bytes at the top and B.TEX of 1 byte in a
\* directory below: the call returned with B.TEX copied to data/tex/<aid>.tex.
C28_Witness ==
    /\ mt_pc = "returned"
    /\ mt_archive.files = <<[root |-> <<>>, name |-> <<"a", ".", "t", "e", "x">>,
                             size |-> 0, stat_ok |-> TRUE],
                            [root |-> <<"sub">>, name |-> <<"B", ".", "T", "E", "X">>,
                             size |-> 1, stat_ok |-> TRUE]>>
    /\ tex_out_dir = {[dest |-> TexDest(mt_aid), source |-> mt_archive.files[2]]}


(***************************************************************************)
(* Claims about set_download_status (SpecSetStatus)                        *)
(***************************************************************************)
\* The statuses of the jobs, per place in the table.
StatusColumn(rows) == [k \in 1..Len(rows) |-> rows[k].download_status]

\* A step that is a call of set_download_status: the call it logs.
LoggedCall == dl_writes'[Len(dl_writes')]

\* What the claim asks of a call: a status other than COMPLETED and FAILED
\* raises and leaves the table as it is; an accepted call gives the job the
\* status and leaves the status of every other job; and a call that repeats
\* the call before it changes no status.
CallMeetsContract ==
    /\ LoggedCall.status \notin {"COMPLETED", "FAILED"} =>
          ~LoggedCall.stored /\ download_queue' = download_queue
    /\ LoggedCall.stored =>
          \A aid \in ArxivIds :
             StatusIn(download_queue', aid) =
                IF aid = LoggedCall.arxiv_id /\ aid \in QueuedIds
                THEN LoggedCall.status
                ELSE StatusOf(aid)
    /\ (dl_writes # <<>> /\ dl_writes[Len(dl_writes)] = LoggedCall) =>
          StatusColumn(download_queue') = StatusColumn(download_queue)

\* C31: set_download_status is idempotent and affects one job only: a second
\* call with the same id and status leaves the statuses the first one left,
\* the status of every other job is unchanged, and a status outside
\* {COMPLETED, FAILED} is rejected with an error without changing the store.
C31_SetStatusIdempotentOneJobValidated ==
    [][dl_writes' # dl_writes => CallMeetsContract]_vars


(***************************************************************************)
(* Claims about the queue during a labeling run (SpecLabeling)             *)
(***************************************************************************)
PairOf(job) == <<job.metadata_id, job.question_id>>

\* Wherever the run stands or stops, no popped job is in labeling_queue, and
\* the queue holds nothing it did not hold when the run began.
PoppedJobsAreGone ==
    lab_pc # "idle" =>
        /\ \A j \in JobNumbers : PairOf(jobs[j]) \notin labeling_queue
        /\ labeling_queue \subseteq queue_at_start

\* C32: the labeling run never writes a job back to labeling_queue: at every
\* point at which the run can be interrupted, every job it has popped is
\* absent from the queue, whatever became of it, and every step of the run
\* leaves in the queue a subset of what was there.
C32_PoppedJobsNeverGoBack ==
    []PoppedJobsAreGone /\ [][labeling_queue' \subseteq labeling_queue]_vars

\* The run raised on a lookup of its second job: both popped jobs are out of
\* the queue, neither has a label, and another job is still queued.
C32_Witness ==
    /\ lab_pc = "raised"
    /\ Len(jobs) = 2
    /\ jobs[1].stage = "queued"
    /\ jobs[2].stage = "enrich_failed"
    /\ metadata_labels = {}
    /\ labeling_queue # {}
    /\ \A j \in JobNumbers : PairOf(jobs[j]) \in queue_at_start \ labeling_queue


(***************************************************************************)
(* Claims about jobs with an empty title or abstract (SpecLabeling)        *)
(***************************************************************************)
\* The paper of the job has a row, with an empty title or abstract, and the
\* question of the job exists: _enrich hands the job on.
ResolvedButEmpty(job) == job.question_id \in questions /\ texts[job.metadata_id] = "empty"

\* C33: a job whose text is resolved with an empty title or abstract is a
\* validation gap and not an error: the backend is never called for it, its
\* classification does not raise, so errors (the number of jobs whose
\* classification raised) does not count it, no upsert is made for it, and
\* metadata_labels gets no row for its paper; once its task has run it has
\* the negative default verdict.
C33_EmptyTextIsNotAnError ==
    /\ \A j \in JobNumbers :
          ResolvedButEmpty(jobs[j]) =>
             /\ jobs[j].calls = 0
             /\ ~ClassifierRaised(jobs[j])
             /\ jobs[j].upsert = {}
             /\ jobs[j].stage \notin {"calling", "upserting", "task_failed"}
             /\ jobs[j].stage = "done" => jobs[j].result = Verdict(FALSE, NoConfidence)
    /\ lab_stats.errors = JobsWith(ClassifierRaised)
    /\ \A row \in metadata_labels : texts[row.metadata_id] # "empty"

\* The run returned after one job, whose paper has an empty title or
\* abstract: the job is done with the negative verdict and without a backend
\* call, no error is counted and no label is written.
C33_Witness ==
    /\ lab_pc = "returned"
    /\ Len(jobs) = 1
    /\ ResolvedButEmpty(jobs[1])
    /\ jobs[1].stage = "done"
    /\ jobs[1].calls = 0
    /\ lab_stats.errors = 0
    /\ metadata_labels = {}


(***************************************************************************)
(* Claims about the rate limiter of the arXiv client (SpecRateLimit)       *)
(***************************************************************************)
\* The request time the i-th call stored.
RecordedAt(i) == CHOOSE t \in rl_calls[i].recorded : TRUE

\* C34: the first _enforce_rate_limit call of a fresh client does not sleep;
\* a later call made less than rate_limit seconds after the request time of
\* the call before it sleeps for the remaining time, and one made later does
\* not sleep; the new request time is recorded after the sleep; and
\* consecutive request times are at least rate_limit seconds apart.
C34_RequestsAreRateLimited ==
    \A i \in 1..Len(rl_calls) :
       /\ i = 1 => rl_calls[i].sleep_time = 0
       /\ i > 1 =>
             LET since == rl_calls[i].current_time - RecordedAt(i - 1)
             IN  /\ rl_calls[i - 1].recorded # {}
                 /\ since < rate_limit => rl_calls[i].sleep_time = rate_limit - since
                 /\ since >= rate_limit => rl_calls[i].sleep_time = 0
       /\ rl_calls[i].recorded # {} =>
             /\ RecordedAt(i) >= rl_calls[i].current_time + rl_calls[i].sleep_time
             /\ i > 1 => RecordedAt(i) - RecordedAt(i - 1) >= rate_limit

\* The second call came one second after the first request: it slept the two
\* seconds that remained, and the second request time is rate_limit after the
\* first.
C34_Witness ==
    /\ Len(rl_calls) = 2
    /\ rl_calls[1].sleep_time = 0
    /\ rl_calls[1].recorded # {}
    /\ rl_calls[2].current_time = RecordedAt(1) + 1
    /\ rl_calls[2].sleep_time = rate_limit - 1
    /\ rl_calls[2].recorded = {RecordedAt(1) + rate_limit}
    /\ rl_pc = "idle"


(***************************************************************************)
(* Claims about the order of the stages of a labeling run (SpecLabeling)   *)
(***************************************************************************)
\* C35: results are handled in completion order and committed one by one: a
\* job whose classification gave an affirmative verdict has its upsert under
\* way or behind it, whatever the stage of the tasks created before it, and
\* an upsert that is under way can complete in the state it is in, without a
\* step of any other task.
C35_UpsertsInCompletionOrder ==
    \A j \in JobNumbers :
       /\ Affirmative(jobs[j]) => jobs[j].stage \in {"upserting", "done", "task_failed"}
       /\ (lab_pc = "running" /\ jobs[j].stage = "upserting") => ENABLED UpsertReturns(j)

\* The task of job b was created after the task of job a and its label is
\* written, while the backend call of job a is still in flight and the run
\* goes on.
C35_Witness ==
    /\ lab_pc = "running"
    /\ \E a, b \in JobNumbers :
          /\ 0 < jobs[a].task_no
          /\ jobs[a].task_no < jobs[b].task_no
          /\ jobs[a].stage = "calling"
          /\ UpsertPerformed(jobs[b])
          /\ \E row \in metadata_labels :
                /\ row.metadata_id = jobs[b].metadata_id
                /\ row.label_id = LabelOfQuestion(jobs[b].question_id)


\* The producer is still in the loop of fetch_jobs_from_queue and its next
\* pop will give a job.
MoreToPop == lab_pc = "popping" /\ pops_left > 0 /\ labeling_queue # {}

\* C36: the stages overlap: while the producer still has jobs to pop, the
\* enrichment of a job it has already popped can start (and with it the
\* classification that follows).
C36_EnrichmentOverlapsPopping ==
    \A j \in JobNumbers : (MoreToPop /\ jobs[j].stage = "enriching") => ENABLED Enrich(j)


(***************************************************************************)
(* Claims about the end of a labeling run (SpecLabelingFair)               *)
(***************************************************************************)
\* The run has ended: run_labeling returned the counters, or raised.
RunEnded == lab_pc \in {"returned", "raised"}

\* Where the run that returned left its jobs: the sentinel was put after the
\* last enriched job and the consumer has taken every item before it; no
\* enrichment and no classification task is pending; every job was skipped,
\* or classified with its result handled; and every affirmative verdict was
\* handed to upsert_metadata_label, which wrote its row unless the call raised.
EveryJobSettled ==
    /\ sentinel_put
    /\ enriched_queue = <<>>
    /\ cons_pc = "done"
    /\ classify_tasks = {}
    /\ \A j \in JobNumbers :
          /\ jobs[j].stage \in {"skipped", "done", "task_failed"}
          /\ jobs[j].stage = "skipped" <=> ~Resolved(jobs[j])
          /\ jobs[j].stage # "skipped" => jobs[j].result.kind \in {"dict", "raised"}
          /\ Affirmative(jobs[j]) =>
                /\ jobs[j].upsert # {}
                /\ jobs[j].stage = "done" =>
                      \E row \in metadata_labels :
                         /\ row.metadata_id = jobs[j].metadata_id
                         /\ row.label_id = LabelOfQuestion(jobs[j].question_id)
          /\ jobs[j].stage = "task_failed" => Affirmative(jobs[j])

\* C40: with the event loop running and every call ending, a labeling run
\* ends, and when it returns every popped job has its final outcome: skipped,
\* processed or error, with the sentinel handed over after the last enriched
\* job, no classification task pending and every affirmative verdict upserted
\* (the upsert call made for each, and the row written by every call that
\* returned).
C40_RunTerminatesWithJobsSettled ==
    /\ <>RunEnded
    /\ [](lab_pc = "returned" => EveryJobSettled)

\* A run of two jobs returned: the label of the first is written, the
\* classification of the second raised and is counted under errors.
C40_Witness ==
    /\ lab_pc = "returned"
    /\ Len(jobs) = 2
    /\ UpsertPerformed(jobs[1])
    /\ ClassifierRaised(jobs[2])
    /\ jobs[2].stage = "done"
    /\ lab_stats = [processed |-> 1, labeled |-> 1, skipped_missing |-> 0, errors |-> 1]
    /\ enriched_queue = <<>>


(***************************************************************************)
(* Claims about the counters of a download run (SpecDownloads)             *)
(***************************************************************************)
\* The last set_download_status call the run made for the k-th item.
LastCallFor(k) == WritesOf(pending_ids[k])[Len(WritesOf(pending_ids[k]))]

\* The items the loop is through with.
EndedItems == {k \in 1..Len(pending_ids) : ItemEnded(k)}

\* The items whose COMPLETED update went through, and the items for which the
\* run called FAILED last.
EndedCompleted == {k \in EndedItems : LastCallFor(k).status = "COMPLETED" /\ LastCallFor(k).stored}

EndedFailed == {k \in EndedItems : LastCallFor(k).status = "FAILED"}

\* C37: during the loop attempted is the number of items begun and completed
\* and failed count the items ended, each in exactly one of the two: completed
\* the items whose last status call is COMPLETED, failed those whose last
\* status call is FAILED, and the status in the table is the one of the last
\* call that went through.  So when the loop is over and run_downloads
\* returns, attempted = completed + failed = the number of ids claimed, and
\* attempted <= requested.
C37_CountersOfARun ==
    dl_pc \in {"loop", "fetching"} =>
        /\ stats.attempted = dl_i
        /\ \A k \in EndedItems : WritesOf(pending_ids[k]) # <<>>
        /\ EndedCompleted \cup EndedFailed = EndedItems
        /\ EndedCompleted \cap EndedFailed = {}
        /\ stats.completed = Cardinality(EndedCompleted)
        /\ stats.failed = Cardinality(EndedFailed)
        /\ \A k \in EndedItems :
              LET done == CommittedWritesOf(pending_ids[k])
              IN  /\ done # <<>> => /\ StatusOf(pending_ids[k]) = done[Len(done)].status
                                    /\ done[Len(done)] = LastCallFor(k)
                  /\ StatusOf(pending_ids[k]) = "COMPLETED" <=> k \in EndedCompleted
        /\ stats.requested >= Len(pending_ids)
        /\ (dl_pc = "loop" /\ dl_i = Len(pending_ids)) =>
              /\ stats.attempted = stats.completed + stats.failed
              /\ stats.attempted = Len(pending_ids)
              /\ stats.attempted <= stats.requested

\* The loop of a run of two items is over: the COMPLETED update of the first
\* raised and its FAILED update went through, the second was completed; the
\* counters are requested 2, attempted 2, completed 1, failed 1.
C37_Witness ==
    /\ dl_pc = "loop"
    /\ Len(pending_ids) = 2
    /\ dl_i = 2
    /\ dl_writes = <<StatusCall(pending_ids[1], "COMPLETED", FALSE),
                     StatusCall(pending_ids[1], "FAILED", TRUE),
                     StatusCall(pending_ids[2], "COMPLETED", TRUE)>>
    /\ stats = [requested |-> 2, attempted |-> 2, completed |-> 1, failed |-> 1]
    /\ StatusOf(pending_ids[1]) = "FAILED"
    /\ StatusOf(pending_ids[2]) = "COMPLETED"


\* C38: the archive-reuse shortcut is taken for an item only when an archive
\* of exactly that item id is in the directory; the archive of another version
\* whose id merely starts with the same characters does not complete the item
\* without a fetch.
C38_ReuseOnlyForOwnArchive ==
    (ItemBegun /\ dl_outcome = "reused" /\ VersionMark(CurrentId) # 0)
        => TarballName(CurrentId) \in tarball_dir


\* C39: when the fetch of strategy 1 succeeds and the extraction raises, the
\* strategy counts as failed and strategy 2 is tried next, and the archive the
\* failed extraction left on disk does not later complete the same item
\* through the reuse shortcut.
C39_UnextractedArchiveNeverCompletes ==
    /\ \A k \in 1..Len(attempts) :
          (attempts[k].strategy = 1 /\ attempts[k].outcome \in {"blocked", "unreadable"})
              => /\ attempts[k].fetched # {}
                 /\ k = 1
                 /\ dl_outcome # "chain" \/ Len(attempts) > 1
                 /\ IF k < Len(attempts)
                    THEN attempts[k + 1].strategy = 2
                    ELSE dl_pc = "fetching" /\ dl_h = 2
    /\ (ItemBegun /\ dl_outcome = "reused" /\ StatusOf(CurrentId) = "COMPLETED")
          => CurrentId \notin dl_unextracted

====
